---- MODULE Spec2Model ----
(***************************************************************************)
(* Model of src/librustc_resolve/late/diagnostics.rs: the diagnosis of     *)
(* unresolved or mismatched paths in late name resolution.                 *)
(*                                                                         *)
(* Each operation of the file has a specification of its own over the same *)
(* variables:                                                              *)
(*   SpecTypo      lookup_typo_candidate (rib walk, sort, best match)      *)
(*   SpecFind      find_module (worklist search of the module graph)       *)
(*   SpecBrace     followed_by_brace and bad_struct_syntax_suggestion      *)
(*   SpecLifetime  add_missing_lifetime_specifiers_label and               *)
(*                 emit_undeclared_lifetime_error                          *)
(*   SpecReport    smart_resolve_report_errors                             *)
(*   SpecEnum      collect_enum_variants on what find_module returns       *)
(*   SpecMissingType  report_missing_type_error                            *)
(*   SpecLabel     suggestion_for_label_in_rib                             *)
(*                                                                         *)
(* Option<T> is a sequence of length at most one: None is << >> and        *)
(* Some(x) is <<x>>.  Text (names, snippets) is a sequence of characters.  *)
(***************************************************************************)
EXTENDS Integers, Sequences, FiniteSets, TLC

VARIABLES
    \* ---- lookup_typo_candidate
    ns,             \* the namespace of the lookup
    accept,         \* filter_fn: the set of Res kinds it accepts
    path_len,       \* path.len()
    path_name,      \* path[path.len() - 1].ident.name
    prefix_module,  \* resolve_path(mod_path): Some(module) or None
    ribs,           \* self.ribs[ns], outermost first (the code walks it reversed)
    tpc,            \* position inside lookup_typo_candidate
    rib_idx,        \* the rib the walk is at
    names,          \* the candidate list `names`
    consulted,      \* the rib indices whose bindings the walk has read
    prelude_passes, \* how often the extern-prelude/prelude block has run
    found,          \* what find_best_match_for_name returned
    result          \* the Option<TypoSuggestion> returned

VARIABLES
    \* ---- find_module
    graph,          \* the module graph: the set of name bindings of all modules
    def_id,         \* the DefId searched for
    worklist,       \* the stack of (module, path_segments) still to expand
    seen_modules,   \* the DefIds already pushed
    fm_result,      \* `result`: Some((module, ImportSuggestion)) once found
    expansions,     \* per module, how often its children were enumerated
    iterations,     \* how many times the while loop has popped
    fpc             \* position inside find_module

VARIABLES
    \* ---- followed_by_brace / bad_struct_syntax_suggestion
    src_text,       \* the source text the span lies in
    span,           \* the span of the failing path
    source,         \* the PathSource of the lookup
    def_span,       \* self.r.opt_span(def_id)
    cur_sp,         \* followed_by_brace: the span `sp` stepping through the text
    brace_i,        \* followed_by_brace: the step counter `i`
    followed,       \* followed_by_brace: the flag `followed_by_brace`
    closing_brace,  \* followed_by_brace: the Option<Span> `closing_brace`
    err,            \* the DiagnosticBuilder being amended
    bpc             \* position inside bad_struct_syntax_suggestion

VARIABLES
    \* ---- LifetimeContext: the binder-site stack and the elision diagnosis
    missing_named_lifetime_spots,  \* the stack of MissingLifetimeSpot
    snippet,        \* span_to_snippet(span).ok() at the elided position
    count,          \* the number of lifetimes expected
    lifetime_names, \* the visible lifetime names, in iteration order
    params,         \* the ElisionFailureInfo list: span and snippet of each
    lifetime_ref,   \* the hir::Lifetime emit_undeclared_lifetime_error is called on
    lt_err,         \* the DiagnosticBuilder add_missing_lifetime_specifiers_label amends
    lpc             \* whether the diagnosis has been made

VARIABLES
    \* ---- smart_resolve_report_errors; span, source, src_text, def_span and err
    \* ---- are the ones declared above
    path,                    \* the segments' names
    res,                     \* Option<Res>: what the path resolved to
    self_type_is_available,  \* self.self_type_is_available(span)
    self_value_is_available, \* self.self_value_is_available(path[0].ident.span, span)
    diagnostic_metadata,     \* self.diagnostic_metadata
    current_trait_ref,       \* self.current_trait_ref: the trait module's items
    resolver,                \* what the lookups in self.r answer for this request
    typo_lookup,             \* what lookup_typo_candidate answers for this request
    candidates,              \* the Vec<ImportSuggestion> `candidates`
    base,                    \* fallback_label, base_span, could_be_expr
    levenshtein_worked,      \* the flag `levenshtein_worked`
    stages,                  \* which of the last three stages have run, in order
    rpc                      \* position inside smart_resolve_report_errors

VARIABLES
    \* ---- report_missing_type_error
    failing_path,                  \* `path`: the segments of the failing path
    currently_processing_generics, \* diagnostic_metadata.currently_processing_generics
    current_item,                  \* diagnostic_metadata.current_item
    missing_type,                  \* what report_missing_type_error returned
    mpc                            \* whether report_missing_type_error has run

VARIABLES
    \* ---- suggestion_for_label_in_rib
    label_ribs,       \* self.label_ribs: each rib's bindings in iteration order
    rib_index,        \* the index of the rib searched
    target_label,     \* `label`: the target label
    label_suggestion, \* what suggestion_for_label_in_rib returned
    spc               \* whether suggestion_for_label_in_rib has run

typoVars == <<ns, accept, path_len, path_name, prefix_module, ribs, tpc, rib_idx,
              names, consulted, prelude_passes, found, result>>

findVars == <<graph, def_id, worklist, seen_modules, fm_result, expansions,
              iterations, fpc>>

braceVars == <<src_text, span, source, def_span, cur_sp, brace_i, followed, closing_brace,
               err, bpc>>

lifeVars == <<missing_named_lifetime_spots, snippet, count, lifetime_names, params,
              lifetime_ref, lt_err, lpc>>

missVars == <<failing_path, currently_processing_generics, current_item, missing_type, mpc>>

labelVars == <<label_ribs, rib_index, target_label, label_suggestion, spc>>

reportVars == <<path, res, self_type_is_available, self_value_is_available,
                diagnostic_metadata, current_trait_ref, resolver, typo_lookup,
                candidates, base, levenshtein_worked, stages, rpc>>

None == << >>
Some(x) == <<x>>

Min(a, b) == IF a <= b THEN a ELSE b
Max(a, b) == IF a >= b THEN a ELSE b

(***************************************************************************)
(* Names.  A name is a sequence of characters; characters are numbered in  *)
(* their ordinal order.                                                    *)
(***************************************************************************)
Alphabet == {1, 2}
MaxNameLen == 2

RECURSIVE SeqsUpTo(_, _)
SeqsUpTo(S, n) ==
    IF n = 0 THEN {<< >>}
    ELSE LET shorter == SeqsUpTo(S, n - 1)
         IN  shorter \cup {Append(s, c) : s \in shorter, c \in S}

AllNames == SeqsUpTo(Alphabet, MaxNameLen) \ {<< >>}

\* Symbol::as_str ordering: the ordinal (lexicographic) order of the text.
RECURSIVE StrLess(_, _)
StrLess(a, b) ==
    IF b = << >> THEN FALSE
    ELSE IF a = << >> THEN TRUE
    ELSE IF Head(a) # Head(b) THEN Head(a) < Head(b)
    ELSE StrLess(Tail(a), Tail(b))

\* lev_distance: the Levenshtein distance of two texts.
RECURSIVE lev_distance(_, _)
lev_distance(a, b) ==
    IF a = << >> THEN Len(b)
    ELSE IF b = << >> THEN Len(a)
    ELSE Min(Min(lev_distance(Tail(a), b) + 1, lev_distance(a, Tail(b)) + 1),
             lev_distance(Tail(a), Tail(b)) + (IF Head(a) = Head(b) THEN 0 ELSE 1))

\* The matcher's threshold when the caller passes dist = None.
MatchThreshold(lookup) == Max(Len(lookup), 3) \div 3

\* find_best_match_for_name(iter_names, lookup, None): among the names within the
\* threshold, the first one of least distance, in iteration order.
RECURSIVE BestFrom(_, _, _, _)
BestFrom(cands, lookup, i, best) ==
    IF i > Len(cands) THEN best
    ELSE LET d == lev_distance(lookup, cands[i])
         IN  IF d <= MatchThreshold(lookup)
                /\ (best = None \/ d < lev_distance(lookup, best[1]))
             THEN BestFrom(cands, lookup, i + 1, Some(cands[i]))
             ELSE BestFrom(cands, lookup, i + 1, best)

find_best_match_for_name(cands, lookup) == BestFrom(cands, lookup, 1, None)

(***************************************************************************)
(* Resolutions, modules and ribs: the snapshot lookup_typo_candidate reads.*)
(***************************************************************************)
\* A Res: its kind and the identity of the definition (or local) it names.
Res(kind, id) == [kind |-> kind, id |-> id]

\* TypoSuggestion::from_res(name, res)
from_res(name, r) == [candidate |-> name, res |-> r]

\* A (name, res) pair of a rib's bindings or of a module's resolutions.
Binding(name, r) == [ident |-> name, res |-> r]

\* filter_fn(res): the predicate looks at the kind of the Res.
filter_fn(r) == r.kind \in accept

ROOT == "root"
BLOCK == "block"
INNER == "inner"
OUTER == "outer"
PRELUDE == "prelude"
ModuleIds == {ROOT, BLOCK, INNER, OUTER, PRELUDE}

\* The module graph of the snapshot: each module's kind (a block or a named
\* module), its no_implicit_prelude flag and its resolutions in iteration order.
Module(m) ==
    CASE m = ROOT ->
           [kind |-> "Def", no_implicit_prelude |-> FALSE,
            children |-> << Binding(<<1, 2>>, Res("Fn", 11)),
                            Binding(<<2>>, Res("Struct", 12)) >>]
      [] m = BLOCK ->
           [kind |-> "Block", no_implicit_prelude |-> FALSE,
            children |-> << Binding(<<1, 1>>, Res("Fn", 21)) >>]
      [] m = INNER ->
           [kind |-> "Def", no_implicit_prelude |-> TRUE,
            children |-> << Binding(<<1, 2>>, Res("Struct", 31)),
                            Binding(<<1>>, Res("Fn", 32)) >>]
      [] m = OUTER ->
           [kind |-> "Def", no_implicit_prelude |-> FALSE,
            children |-> << Binding(<<2, 1>>, Res("Fn", 41)),
                            Binding(<<2, 1>>, Res("Struct", 42)) >>]
      [] m = PRELUDE ->
           [kind |-> "Def", no_implicit_prelude |-> TRUE,
            children |-> << Binding(<<2, 2>>, Res("Fn", 51)),
                            Binding(<<1, 1>>, Res("Struct", 52)) >>]

\* self.r.prelude
prelude == Some(PRELUDE)

\* self.r.extern_prelude in iteration order; `loads` is whether
\* maybe_process_path_extern finds the crate.
extern_prelude ==
    << [ident |-> <<2>>, loads |-> TRUE, krate |-> 61],
       [ident |-> <<1, 2>>, loads |-> FALSE, krate |-> 62] >>

\* self.r.primitive_type_table.primitive_types
primitive_types == << Binding(<<2, 2>>, Res("PrimTy", 71)),
                      Binding(<<1>>, Res("PrimTy", 72)) >>

NormalRib(bindings) == [kind |-> "NormalRibKind", module |-> "none", bindings |-> bindings]
ModuleRib(m) == [kind |-> "ModuleRibKind", module |-> m, bindings |-> << >>]

\* The ribs that can lie inside the crate root's rib.
InnerRibs ==
    { NormalRib(<< Binding(<<1, 2>>, Res("Local", 101)) >>),
      NormalRib(<< Binding(<<1>>, Res("Local", 102)),
                   Binding(<<1, 1>>, Res("Local", 103)) >>),
      ModuleRib(BLOCK),
      ModuleRib(INNER),
      ModuleRib(OUTER) }

MaxRibs == 2

\* Sequences without repetition of at most n elements of S.
RECURSIVE InjSeqs(_, _)
InjSeqs(S, n) ==
    IF n = 0 THEN {<< >>}
    ELSE LET shorter == InjSeqs(S, n - 1)
             longer  == {Append(s, x) : s \in shorter, x \in S}
         IN  shorter \cup {s \in longer : \A i, j \in 1..Len(s) : i # j => s[i] # s[j]}

\* A rib stack: the crate root's module rib, then the inner ribs.
RibStacks == {<<ModuleRib(ROOT)>> \o s : s \in InjSeqs(InnerRibs, MaxRibs)}

\* The calls: ns and filter_fn are two parameters of lookup_typo_candidate, and
\* the function puts no condition on how they go together.
Requests ==
    { [ns |-> "ValueNS", accept |-> {"Local", "Fn"}],
      [ns |-> "ValueNS", accept |-> {"Fn", "PrimTy"}],
      [ns |-> "TypeNS", accept |-> {"Struct", "PrimTy"}],
      [ns |-> "TypeNS", accept |-> {"Mod", "Struct"}] }

\* for (ident, &res) in &rib.bindings { if filter_fn(res) { names.push(...) } }
RECURSIVE FilterBindings(_)
FilterBindings(bs) ==
    IF bs = << >> THEN << >>
    ELSE (IF filter_fn(Head(bs).res)
          THEN <<from_res(Head(bs).ident, Head(bs).res)>> ELSE << >>)
         \o FilterBindings(Tail(bs))

\* Resolver::add_module_candidates(module, &mut names, &filter_fn)
add_module_candidates(m) == FilterBindings(Module(m).children)

\* The extern-prelude names: each crate that loads, as a Mod, if the filter takes it.
RECURSIVE ExternCandidates(_)
ExternCandidates(es) ==
    IF es = << >> THEN << >>
    ELSE (IF Head(es).loads /\ filter_fn(Res("Mod", Head(es).krate))
          THEN <<from_res(Head(es).ident, Res("Mod", Head(es).krate))>> ELSE << >>)
         \o ExternCandidates(Tail(es))

\* A slip that puts the `break` inside `if !module.no_implicit_prelude { .. }`.
StopsWalkOnlyWithPrelude(rib) ==
    /\ rib.kind = "ModuleRibKind"
    /\ Module(rib.module).kind # "Block"
    /\ ~Module(rib.module).no_implicit_prelude

\* if let ModuleKind::Block(..) = module.kind { /* see through */ } else { ...; break }
StopsWalk(rib) ==
    rib.kind = "ModuleRibKind" /\ Module(rib.module).kind # "Block"

\* A slip that tests the flag without the test for a block module.
AddsPreludeAtBlocks(rib) ==
    rib.kind = "ModuleRibKind" /\ ~Module(rib.module).no_implicit_prelude

\* if !module.no_implicit_prelude { extern prelude; prelude }
AddsPrelude(rib) ==
    /\ rib.kind = "ModuleRibKind"
    /\ Module(rib.module).kind # "Block"
    /\ ~Module(rib.module).no_implicit_prelude

PreludeCandidates ==
    ExternCandidates(extern_prelude)
    \o (IF prelude # None THEN add_module_candidates(prelude[1]) ELSE << >>)

\* One iteration of `for rib in self.ribs[ns].iter().rev()`: what it pushes.
RibCandidates(rib) ==
    FilterBindings(rib.bindings)
    \o (IF rib.kind = "ModuleRibKind" THEN add_module_candidates(rib.module) ELSE << >>)
    \o (IF AddsPrelude(rib) THEN PreludeCandidates ELSE << >>)

\* if filter_fn(Res::PrimTy(PrimTy::Bool)) { names.extend(primitive types) }
RECURSIVE AllBindings(_)
AllBindings(bs) ==
    IF bs = << >> THEN << >>
    ELSE <<from_res(Head(bs).ident, Head(bs).res)>> \o AllBindings(Tail(bs))

\* A slip that adds the primitive types without asking the filter.
PrimitiveCandidatesAlways == AllBindings(primitive_types)

\* if filter_fn(Res::PrimTy(PrimTy::Bool)) { names.extend(primitive_types ..) }
PrimitiveCandidates ==
    IF filter_fn(Res("PrimTy", 0)) THEN AllBindings(primitive_types) ELSE << >>

\* names.sort_by_cached_key(|suggestion| suggestion.candidate.as_str()):
\* a stable sort by the candidate's text.
RECURSIVE InsertSorted(_, _)
InsertSorted(sorted, x) ==
    IF sorted = << >> THEN <<x>>
    ELSE IF StrLess(x.candidate, Head(sorted).candidate)
         THEN <<x>> \o sorted
         ELSE <<Head(sorted)>> \o InsertSorted(Tail(sorted), x)

RECURSIVE StableSortFrom(_, _, _)
StableSortFrom(s, i, acc) ==
    IF i > Len(s) THEN acc ELSE StableSortFrom(s, i + 1, InsertSorted(acc, s[i]))

sort_by_cached_key(s) == StableSortFrom(s, 1, << >>)

Candidates(s) == [i \in 1..Len(s) |-> s[i].candidate]

\* names.into_iter().find(|suggestion| suggestion.candidate == found)
RECURSIVE FindFirst(_, _)
FindFirst(s, nm) ==
    IF s = << >> THEN None
    ELSE IF Head(s).candidate = nm THEN Some(Head(s))
    ELSE FindFirst(Tail(s), nm)

\* A slip that drops the `if found != name` guard.
KeepsMatchNoGuard(best, name) == best # None

\* Some(found) if found != name => names.into_iter().find(..), _ => None
KeepsMatch(best, name) == best # None /\ best[1] # name

\* Lines 762-775: sort, best match, pick the suggestion.
MatchResult(nms, name) ==
    LET sorted == sort_by_cached_key(nms)
        best   == find_best_match_for_name(Candidates(sorted), name)
    IN  [sorted |-> sorted,
         found  |-> best,
         result |-> IF KeepsMatch(best, name) THEN FindFirst(sorted, best[1]) ELSE None]

(***************************************************************************)
(* lookup_typo_candidate, step by step.                                    *)
(***************************************************************************)
\* The (len, resolved prefix) shapes of the failing path: a bare identifier, a
\* path whose prefix resolves to a module, a path whose prefix does not.
PathShapes ==
    { [len |-> 1, module |-> None],
      [len |-> 2, module |-> Some(OUTER)],
      [len |-> 2, module |-> Some(INNER)],
      [len |-> 2, module |-> None] }

TypoIdle ==
    /\ ns = "TypeNS"
    /\ accept = {}
    /\ path_len = 1
    /\ path_name = <<1>>
    /\ prefix_module = None
    /\ ribs = <<ModuleRib(ROOT)>>
    /\ tpc = "idle"
    /\ rib_idx = 0
    /\ names = << >>
    /\ consulted = {}
    /\ prelude_passes = 0
    /\ found = None
    /\ result = None

\* The call: let mut names = Vec::new(); if path.len() == 1 { walk } else { module }
TypoInit ==
    \E rq \in Requests, nm \in AllNames, rs \in RibStacks, sh \in PathShapes :
        /\ ns = rq.ns
        /\ accept = rq.accept
        /\ path_len = sh.len
        /\ path_name = nm
        /\ prefix_module = sh.module
        /\ ribs = rs
        /\ tpc = IF sh.len = 1 THEN "walk" ELSE "module"
        /\ rib_idx = Len(rs)
        /\ names = << >>
        /\ consulted = {}
        /\ prelude_passes = 0
        /\ found = None
        /\ result = None

\* One iteration of the loop over self.ribs[ns].iter().rev() (lines 698-741).
WalkRib ==
    /\ tpc = "walk"
    /\ rib_idx >= 1
    /\ LET rib == ribs[rib_idx]
       IN  /\ names' = names \o RibCandidates(rib)
           /\ consulted' = consulted \cup {rib_idx}
           /\ prelude_passes' = prelude_passes + (IF AddsPrelude(rib) THEN 1 ELSE 0)
           /\ IF StopsWalk(rib) \/ rib_idx = 1
              THEN tpc' = "prims" /\ rib_idx' = rib_idx
              ELSE tpc' = "walk" /\ rib_idx' = rib_idx - 1
    /\ UNCHANGED <<ns, accept, path_len, path_name, prefix_module, ribs, found, result>>
    /\ UNCHANGED <<findVars, braceVars, lifeVars, reportVars, missVars, labelVars>>

\* Add primitive types to the mix (lines 742-749).
AddPrimitives ==
    /\ tpc = "prims"
    /\ names' = names \o PrimitiveCandidates
    /\ tpc' = "match"
    /\ UNCHANGED <<ns, accept, path_len, path_name, prefix_module, ribs, rib_idx,
                   consulted, prelude_passes, found, result>>
    /\ UNCHANGED <<findVars, braceVars, lifeVars, reportVars, missVars, labelVars>>

\* Search in module (lines 750-760).
SearchInModule ==
    /\ tpc = "module"
    /\ names' = IF prefix_module # None
                THEN names \o add_module_candidates(prefix_module[1]) ELSE names
    /\ tpc' = "match"
    /\ UNCHANGED <<ns, accept, path_len, path_name, prefix_module, ribs, rib_idx,
                   consulted, prelude_passes, found, result>>
    /\ UNCHANGED <<findVars, braceVars, lifeVars, reportVars, missVars, labelVars>>

\* Sort, best match, pick (lines 762-775).
SortAndMatch ==
    /\ tpc = "match"
    /\ LET m == MatchResult(names, path_name)
       IN  /\ names' = m.sorted
           /\ found' = m.found
           /\ result' = m.result
    /\ tpc' = "done"
    /\ UNCHANGED <<ns, accept, path_len, path_name, prefix_module, ribs, rib_idx,
                   consulted, prelude_passes>>
    /\ UNCHANGED <<findVars, braceVars, lifeVars, reportVars, missVars, labelVars>>

TypoNext == WalkRib \/ AddPrimitives \/ SearchInModule \/ SortAndMatch

(***************************************************************************)
(* Properties of lookup_typo_candidate.                                    *)
(***************************************************************************)
\* A rib that is a module boundary of a named (non-block) module.
IsOpaqueBoundary(rib) ==
    rib.kind = "ModuleRibKind" /\ Module(rib.module).kind = "Def"

\* The innermost opaque boundary of a rib stack (the stack's first rib is the
\* crate root's, so there is one).
FirstBoundary(rs) ==
    CHOOSE i \in 1..Len(rs) :
        /\ IsOpaqueBoundary(rs[i])
        /\ \A j \in (i + 1)..Len(rs) : ~IsOpaqueBoundary(rs[j])

\* The identities a rib can contribute: its bindings and its module's children.
RibIds(rib) ==
    {rib.bindings[k].res.id : k \in 1..Len(rib.bindings)}
    \cup (IF rib.kind = "ModuleRibKind"
          THEN {Module(rib.module).children[k].res.id :
                    k \in 1..Len(Module(rib.module).children)}
          ELSE {})

\* C1: for a length-1 path the ribs that contribute candidates are exactly the
\* ribs from the innermost one outward up to and including the first rib that
\* is a non-block module boundary; no rib further outward is read, and no
\* candidate comes from one, whether or not the module permits the prelude.
C1_WalkStopsAtFirstBoundary ==
    path_len = 1 /\ tpc # "idle" =>
        LET b == FirstBoundary(ribs)
        IN  /\ consulted \subseteq b..Len(ribs)
            /\ tpc \in {"prims", "match", "done"} => consulted = b..Len(ribs)
            /\ \A i \in 1..Len(names) : \A j \in 1..(b - 1) :
                   names[i].res.id \notin RibIds(ribs[j])

\* C1's case: the walk passed a local rib and a block module, stopped at a
\* module without implicit prelude, and left the crate root's rib unread.
C1_Witness ==
    /\ tpc = "done" /\ path_len = 1
    /\ Len(ribs) = 3
    /\ ribs[2] = ModuleRib(INNER)
    /\ ribs[3] = ModuleRib(BLOCK)
    /\ consulted = {2, 3}
    /\ names # << >>

\* C2: at most one suggestion is returned; a returned suggestion is one of the
\* collected candidates, satisfies the filter and never carries the failing
\* name; when the matcher's best match is the failing name, nothing is returned.
C2_TypoResultNeverTheName ==
    tpc = "done" =>
        /\ Len(result) <= 1
        /\ result # None =>
               /\ result[1].candidate # path_name
               /\ \E i \in 1..Len(names) : names[i] = result[1]
               /\ filter_fn(result[1].res)
        /\ found = Some(path_name) => result = None

\* C2's case: the failing name is itself a candidate and wins, another candidate
\* lies within the threshold, and nothing is returned.
C2_Witness ==
    /\ tpc = "done"
    /\ found = Some(path_name)
    /\ result = None
    /\ \E i \in 1..Len(names) :
           /\ names[i].candidate # path_name
           /\ lev_distance(path_name, names[i].candidate) <= MatchThreshold(path_name)

\* The identities of what the prelude pass can add: the extern crates' roots
\* and the children of the standard prelude module.
PreludeIds ==
    {extern_prelude[k].krate : k \in 1..Len(extern_prelude)}
    \cup {Module(PRELUDE).children[k].res.id : k \in 1..Len(Module(PRELUDE).children)}

\* How many of the candidates carry one of the identities.
CountFrom(s, ids) == Cardinality({k \in 1..Len(s) : s[k].res.id \in ids})

\* C14: in the walk for a bare identifier the extern-crate roots and the
\* prelude's children, filtered, are added exactly once at the first non-block
\* module boundary when that module permits the implicit prelude and not at
\* all when it does not; never at a block module or at a rib that is no
\* module: a walk makes at most one prelude pass.
C14_PreludePassAtMostOnce ==
    path_len = 1 /\ tpc # "idle" =>
        LET b == FirstBoundary(ribs)
            permits == ~Module(ribs[b].module).no_implicit_prelude
        IN  /\ prelude_passes <= 1
            /\ tpc = "walk" =>
                   prelude_passes = 0 /\ CountFrom(names, PreludeIds) = 0
            /\ tpc \in {"prims", "match", "done"} =>
                   /\ prelude_passes = (IF permits THEN 1 ELSE 0)
                   /\ CountFrom(names, PreludeIds) =
                          (IF permits THEN Len(PreludeCandidates) ELSE 0)

\* C14's case: the walk went through a block module, which permits the
\* prelude, up to the crate root, and the prelude was added once.
C14_Witness ==
    /\ tpc = "done" /\ path_len = 1
    /\ Len(ribs) = 2
    /\ ribs[2] = ModuleRib(BLOCK)
    /\ consulted = {1, 2}
    /\ prelude_passes = 1
    /\ CountFrom(names, PreludeIds) = 2

\* Some candidate of the list is a primitive type.
HasPrimitiveCandidate == \E k \in 1..Len(names) : names[k].res.kind = "PrimTy"

\* Every name of the primitive type table is in the list, once.
HasEveryPrimitive ==
    \A j \in 1..Len(primitive_types) :
        Cardinality({k \in 1..Len(names) :
                        names[k] = from_res(primitive_types[j].ident,
                                            primitive_types[j].res)}) = 1

Swap(s, i, j) ==
    [k \in 1..Len(s) |-> IF k = i THEN s[j] ELSE IF k = j THEN s[i] ELSE s[k]]

\* C3: the suggestion returned does not depend on the order in which the
\* candidates were collected: exchanging any two collected candidates (every
\* permutation is a product of such exchanges) yields the same suggestion.
C3_ResultIndependentOfCollectionOrder ==
    tpc = "match" =>
        \A i, j \in 1..Len(names) :
            MatchResult(Swap(names, i, j), path_name).result
                = MatchResult(names, path_name).result

(***************************************************************************)
(* find_module: the worklist search of the module graph (lines 863-906).   *)
(***************************************************************************)
CRATE == "crate"
FindModules == <<CRATE, "a", "b">>
FindModuleSet == {FindModules[i] : i \in 1..Len(FindModules)}

\* A name binding of a module: its owner, its ident, whether it is visible
\* locally, name_binding.module(): the module it names (itself or through
\* an import), or None for an item that is no module, and the kind of
\* name_binding.res().
NameBinding(owner, ident, visible, module) ==
    [owner |-> owner, ident |-> ident, visible |-> visible, module |-> module,
     res |-> IF module = None THEN "Fn" ELSE "Mod"]

\* The bindings a graph can hold: a visible binding from every module to every
\* module (a child module, or a re-export of any module, the crate root and the
\* owner included), private bindings of the crate root, and one plain item.
BindingUniverse ==
    {NameBinding(o, t, TRUE, Some(t)) : o \in FindModuleSet, t \in FindModuleSet}
    \cup {NameBinding(CRATE, "hidden", FALSE, Some(t)) : t \in {"a", "b"}}
    \cup {NameBinding(CRATE, "item", TRUE, None)}

MaxBindings == 4

RECURSIVE SubsetsUpTo(_, _)
SubsetsUpTo(S, n) ==
    IF n = 0 THEN {{}}
    ELSE LET smaller == SubsetsUpTo(S, n - 1)
         IN  smaller \cup {g \cup {x} : g \in smaller, x \in S}

\* (name, ns) is unique in a module: no two bindings of one owner share an ident.
WellFormedGraph(g) ==
    \A x, y \in g : x.owner = y.owner /\ x.ident = y.ident => x = y

Graphs == {g \in SubsetsUpTo(BindingUniverse, MaxBindings) : WellFormedGraph(g)}

\* The DefIds find_module is asked for: a module of the graph or one that no
\* binding names.
SearchedIds == {"a", "b", "absent"}

\* in_module.for_each_child: the module's bindings in a fixed iteration order.
RECURSIVE ChildrenFrom(_, _, _)
ChildrenFrom(g, m, i) ==
    IF i > Len(FindModules) THEN << >>
    ELSE LET t == FindModules[i]
             vis == NameBinding(m, t, TRUE, Some(t))
             hid == NameBinding(m, "hidden", FALSE, Some(t))
         IN  (IF vis \in g THEN <<vis>> ELSE << >>)
             \o (IF hid \in g THEN <<hid>> ELSE << >>)
             \o ChildrenFrom(g, m, i + 1)

\* The children of m that are no modules and named as in `idents`, in that order.
RECURSIVE ItemsOf(_, _, _)
ItemsOf(g, m, idents) ==
    IF idents = << >> THEN << >>
    ELSE LET named == {b \in g : b.owner = m /\ b.ident = Head(idents) /\ b.module = None}
         IN  (IF named = {} THEN << >> ELSE <<CHOOSE b \in named : TRUE>>)
             \o ItemsOf(g, m, Tail(idents))

Children(g, m) ==
    (IF NameBinding(m, "item", TRUE, None) \in g
     THEN <<NameBinding(m, "item", TRUE, None)>> ELSE << >>)
    \o ItemsOf(g, m, <<"V", "W">>)
    \o ChildrenFrom(g, m, 1)

\* A slip that pushes every module it meets, seen or not.
PushesAlways(seen, id) == TRUE

\* if seen_modules.insert(module_def_id) { worklist.push(..) }
Pushes(seen, id) == id \notin seen

\* The closure passed to for_each_child, applied to one binding: st is
\* (result, seen_modules, worklist).
VisitChild(st, path_segments, b, target) ==
    IF st.result # None \/ ~b.visible THEN st
    ELSE IF b.module = None THEN st
    ELSE LET child == Append(path_segments, b.ident)
             id   == b.module[1]
         IN  IF id = target
             THEN [st EXCEPT !.result =
                      Some([module |-> id,
                            suggestion |-> [did |-> Some(target), descr |-> "module",
                                            path |-> child, accessible |-> TRUE]])]
             ELSE IF Pushes(st.seen, id)
                  THEN [st EXCEPT !.seen = st.seen \cup {id},
                                  !.worklist = Append(st.worklist, <<id, child>>)]
                  ELSE st

RECURSIVE VisitChildren(_, _, _, _, _)
VisitChildren(st, path_segments, cs, i, target) ==
    IF i > Len(cs) THEN st
    ELSE VisitChildren(VisitChild(st, path_segments, cs[i], target),
                       path_segments, cs, i + 1, target)

\* No terminating search pops more often than once per module and once more
\* for the root; the loop counter is capped just above that.
IterationCap == Len(FindModules) + 2

FindIdle ==
    /\ graph = {}
    /\ def_id = "absent"
    /\ worklist = << >>
    /\ seen_modules = {}
    /\ fm_result = None
    /\ expansions = [m \in FindModuleSet |-> 0]
    /\ iterations = 0
    /\ fpc = "idle"

\* let mut result = None; seen_modules = {}; worklist = vec![(graph_root, [])]
FindInit ==
    \E g \in Graphs, d \in SearchedIds :
        /\ graph = g
        /\ def_id = d
        /\ worklist = << <<CRATE, << >> >> >>
        /\ seen_modules = {}
        /\ fm_result = None
        /\ expansions = [m \in FindModuleSet |-> 0]
        /\ iterations = 0
        /\ fpc = "loop"

\* One iteration of `while let Some((in_module, path_segments)) = worklist.pop()`
\* that enumerates the popped module's children.
ExpandModule ==
    /\ fpc = "loop"
    /\ worklist # << >>
    /\ fm_result = None
    /\ iterations < IterationCap
    /\ LET top  == worklist[Len(worklist)]
           rest == SubSeq(worklist, 1, Len(worklist) - 1)
           st   == VisitChildren([result |-> fm_result, seen |-> seen_modules,
                                  worklist |-> rest],
                                 top[2], Children(graph, top[1]), 1, def_id)
       IN  /\ fm_result' = st.result
           /\ seen_modules' = st.seen
           /\ worklist' = st.worklist
           /\ expansions' = [expansions EXCEPT ![top[1]] = @ + 1]
    /\ iterations' = iterations + 1
    /\ UNCHANGED <<graph, def_id, fpc>>
    /\ UNCHANGED <<typoVars, braceVars, lifeVars, reportVars, missVars, labelVars>>

\* The pop after which `if result.is_some() { break; }` leaves the loop.
BreakOnResult ==
    /\ fpc = "loop"
    /\ worklist # << >>
    /\ fm_result # None
    /\ worklist' = SubSeq(worklist, 1, Len(worklist) - 1)
    /\ fpc' = "done"
    /\ UNCHANGED <<graph, def_id, seen_modules, fm_result, expansions, iterations>>
    /\ UNCHANGED <<typoVars, braceVars, lifeVars, reportVars, missVars, labelVars>>

\* worklist.pop() returns None: the loop ends and `result` is returned.
WorklistEmpty ==
    /\ fpc = "loop"
    /\ worklist = << >>
    /\ fpc' = "done"
    /\ UNCHANGED <<graph, def_id, worklist, seen_modules, fm_result, expansions,
                   iterations>>
    /\ UNCHANGED <<typoVars, braceVars, lifeVars, reportVars, missVars, labelVars>>

FindNext == ExpandModule \/ BreakOnResult \/ WorklistEmpty

\* C5: find_module terminates on every finite module graph, re-exports into
\* the same module, back to an ancestor or to the crate root included: the
\* worklist empties or a match is found.
C5_FindModuleTerminates == <>(fpc = "done")

\* Every binding of g on a path of visible bindings from the crate root.
Reaches(g, from, to) ==
    \E b \in g : b.owner = from /\ b.visible /\ b.module = Some(to)

\* C5's case: a finished search that found nothing in a graph where two
\* bindings lead into the same module and a re-export leads back to the root.
C5_Witness ==
    /\ fpc = "done"
    /\ fm_result = None
    /\ Reaches(graph, CRATE, "a")
    /\ Reaches(graph, CRATE, "b")
    /\ Reaches(graph, "b", "a")
    /\ Reaches(graph, "a", CRATE)
    /\ expansions["a"] >= 1 /\ expansions["b"] >= 1

\* C6: during one search no module has its children enumerated more than
\* once, the root module included.
C6_NoModuleExpandedTwice ==
    \A m \in FindModuleSet : expansions[m] <= 1

(***************************************************************************)
(* Source text, spans and diagnostics.                                     *)
(***************************************************************************)
\* A span covers the characters lo+1 .. hi of the text (byte offsets lo..hi).
Span(lo, hi) == [lo |-> lo, hi |-> hi]
shrink_to_lo(sp) == Span(sp.lo, sp.lo)
shrink_to_hi(sp) == [sp EXCEPT !.lo = sp.hi]
span_to(a, b) == Span(Min(a.lo, b.lo), Max(a.hi, b.hi))

\* SourceMap::next_point for one-byte characters: the span starts at sp.hi and
\* ends at max(sp.lo + 1, sp.hi).  After a span that is not empty it is the
\* empty span at sp.hi; after an empty span it is the one character that
\* follows.  So `sp.to(next_point(sp))` with sp = next_point(..) is one
\* character, which is what lines 792-797 and 779-782 compare with ":" and " ".
next_point(sp) == Span(sp.hi, Max(sp.lo + 1, sp.hi))

\* SourceMap::span_to_snippet: Ok(text) as Some(text), Err as None.
span_to_snippet(text, sp) ==
    IF 0 <= sp.lo /\ sp.lo <= sp.hi /\ sp.hi <= Len(text)
    THEN Some(SubSeq(text, sp.lo + 1, sp.hi))
    ELSE None

is_whitespace(c) == c \in {" ", "\n", "\t"}

\* A fresh diagnostic: the primary message is left out, the rest is empty.
EmptyErr ==
    [code |-> "", labels |-> << >>, notes |-> << >>, helps |-> << >>,
     suggestions |-> << >>, choices |-> << >>, multiparts |-> << >>]

span_label(e, sp, msg) ==
    [e EXCEPT !.labels = Append(@, [span |-> sp, msg |-> msg])]
note(e, msg) == [e EXCEPT !.notes = Append(@, msg)]
span_help(e, at, msg) == [e EXCEPT !.helps = Append(@, [span |-> Some(at), msg |-> msg])]
help(e, msg) == [e EXCEPT !.helps = Append(@, [span |-> None, msg |-> msg])]
span_suggestion(e, sp, msg, text, applicability) ==
    [e EXCEPT !.suggestions =
        Append(@, [span |-> sp, msg |-> msg, text |-> text,
                   applicability |-> applicability])]
multipart_suggestion(e, msg, parts, applicability) ==
    [e EXCEPT !.multiparts =
        Append(@, [msg |-> msg, parts |-> parts, applicability |-> applicability])]

(***************************************************************************)
(* followed_by_brace (lines 396-441).                                      *)
(***************************************************************************)
\* The test that ends the first loop: the snippet cannot be read, or it holds
\* a character that is no whitespace.
EndsWhitespace(text, at) ==
    LET snip == span_to_snippet(text, at)
    IN  snip = None \/ \E k \in 1..Len(snip[1]) : ~is_whitespace(snip[1][k])

\* The cap on the closing-brace search: `if i > 100 { break; }`.
LookaheadCap == 100

\* A slip that leaves the cap test out.
ExceedsCapNever(n) == FALSE

\* A slip that writes a larger cap.
ExceedsCapLate(n) == n > 3 * LookaheadCap

ExceedsCap(n) == n > LookaheadCap

\* The characters the capped search reads: every second step reads one.
LookaheadChars == LookaheadCap \div 2

(***************************************************************************)
(* path_sep and bad_struct_syntax_suggestion (lines 458-518).              *)
(***************************************************************************)
\* The path separator rewrite for a parent field access or method call;
\* returns the diagnostic and whether it suggested.
path_sep(e, expr, path_str) ==
    CASE expr.kind = "Field" ->
           [err |-> span_suggestion(e, expr.span,
                        "use the path separator to refer to an item",
                        path_str \o <<":", ":">> \o expr.ident, "MaybeIncorrect"),
            suggested |-> TRUE]
      [] expr.kind = "MethodCall" ->
           [err |-> span_suggestion(e, Span(expr.span.lo, expr.ident_span.hi),
                        "use the path separator to refer to an item",
                        path_str \o <<":", ":">> \o expr.ident, "MaybeIncorrect"),
            suggested |-> TRUE]
      [] OTHER -> [err |-> e, suggested |-> FALSE]

\* vec![(sp.shrink_to_lo(), "("), (sp.shrink_to_hi(), ")")]
ParenParts(lit, path_span) ==
    << [span |-> shrink_to_lo(lit), text |-> <<"(">>],
       [span |-> shrink_to_hi(lit), text |-> <<")">>] >>

\* The body of the closure after the call of followed_by_brace.
bad_struct_syntax_suggestion(e, src, psp, fb, path_str, dspan) ==
    LET tried ==
            IF src.kind = "Expr" /\ src.parent # None
            THEN path_sep(e, src.parent[1], path_str)
            ELSE IF src.kind = "Expr" /\ src.parent = None /\ fb.followed_by_brace
            THEN [err |->
                     IF fb.closing_brace # None
                     THEN multipart_suggestion(e,
                              "surround the struct literal with parentheses",
                              ParenParts(fb.closing_brace[1], psp), "MaybeIncorrect")
                     ELSE span_label(e, psp,
                              <<"you might want to surround a struct literal with parentheses",
                                path_str>>),
                  suggested |-> TRUE]
            ELSE [err |-> e, suggested |-> FALSE]
    IN  IF tried.suggested THEN tried.err
        ELSE LET e1 == IF dspan # None
                       THEN span_label(tried.err, dspan[1], <<"defined here", path_str>>)
                       ELSE tried.err
             IN  span_label(e1, psp, <<"did you mean a struct literal", path_str>>)

(***************************************************************************)
(* The texts and sources bad_struct_syntax_suggestion is run on.           *)
(***************************************************************************)
MaxWs == 2
MaxShortGap == 3

Repeat(c, n) == [k \in 1..n |-> c]

PathText == <<"F", "o", "o">>
PathSpan == Span(0, Len(PathText))

\* The lengths of the text between the opening brace and what ends it: short
\* ones, the ones around what the capped search reads, and one beyond the cap.
GapLens ==
    0..MaxShortGap \cup (LookaheadChars - 2)..(LookaheadChars + 2) \cup {LookaheadCap + 1}

\* The text between the braces: field text, behind a nested brace pair if asked.
Filler(n, nested) ==
    IF nested /\ n >= 2 THEN <<"{", "}">> \o Repeat("a", n - 2) ELSE Repeat("a", n)

\* `Foo`, whitespace, an opening brace, the filler, and a closing brace or not.
BraceTexts ==
    { PathText \o Repeat(" ", w) \o <<"{">> \o Filler(g, n)
          \o (IF c THEN <<"}">> ELSE << >>) \o <<";">> :
        w \in 0..MaxWs, g \in GapLens, n \in BOOLEAN, c \in BOOLEAN }

\* `Foo` followed by something that is no brace, or by the end of the text.
PlainTexts ==
    { PathText \o Repeat(" ", w) \o t :
        w \in 0..MaxWs, t \in {<< >>, <<";">>, <<"\n", "{", "}">>} }

ExprNone == [kind |-> "Expr", parent |-> None]
ExprParent(kind, esp, ident, ident_span) ==
    [kind |-> "Expr",
     parent |-> Some([kind |-> kind, span |-> esp, ident |-> ident,
                      ident_span |-> ident_span])]

\* The (text, source) pairs: a bare path expression before any text, and a
\* path that is the base of a field access, a method call or a call, or a
\* pattern.
BraceScenarios ==
    {[text |-> t, source |-> ExprNone] : t \in BraceTexts \cup PlainTexts}
    \cup {[text |-> PathText \o <<".", "x", ";">>,
           source |-> ExprParent("Field", Span(0, 5), <<"x">>, Span(4, 5))],
          [text |-> PathText \o <<".", "m", "(", ")", ";">>,
           source |-> ExprParent("MethodCall", Span(0, 7), <<"m">>, Span(4, 5))],
          [text |-> PathText \o <<"(", "1", ")", ";">>,
           source |-> ExprParent("Call", Span(0, 6), << >>, Span(0, 0))]}
    \cup {[text |-> t, source |-> [kind |-> "Pat", parent |-> None]] :
              t \in {PathText \o <<" ", "{", "}">>, PathText \o <<" ", "=">>}}

BraceIdle ==
    /\ src_text = << >>
    /\ span = Span(0, 0)
    /\ source = ExprNone
    /\ def_span = None
    /\ cur_sp = Span(0, 0)
    /\ brace_i = 0
    /\ followed = FALSE
    /\ closing_brace = None
    /\ err = EmptyErr
    /\ bpc = "idle"

\* The call of the closure: followed_by_brace(span) starts with `let mut sp = span`.
BraceInit ==
    \E sc \in BraceScenarios, d \in {None, Some(Span(500, 503))} :
        /\ src_text = sc.text
        /\ span = PathSpan
        /\ source = sc.source
        /\ def_span = d
        /\ cur_sp = PathSpan
        /\ brace_i = 0
        /\ followed = FALSE
        /\ closing_brace = None
        /\ err = EmptyErr
        /\ bpc = "skip_ws"

\* One iteration of the first loop (lines 403-413); on leaving it, the flag
\* followed_by_brace is computed (lines 414-417) and i is set to 0.
SkipWhitespace ==
    /\ bpc = "skip_ws"
    /\ cur_sp' = next_point(cur_sp)
    /\ IF EndsWhitespace(src_text, cur_sp')
       THEN /\ followed' = (span_to_snippet(src_text, cur_sp') = Some(<<"{">>))
            /\ bpc' = "find_close"
       ELSE UNCHANGED <<followed, bpc>>
    /\ UNCHANGED <<src_text, span, source, def_span, brace_i, closing_brace, err>>
    /\ UNCHANGED <<typoVars, findVars, lifeVars, reportVars, missVars, labelVars>>

\* One iteration of the second loop (lines 422-439).
SearchClosingBrace ==
    /\ bpc = "find_close"
    /\ cur_sp' = next_point(cur_sp)
    /\ LET snip == span_to_snippet(src_text, cur_sp')
       IN  IF snip = None
           THEN bpc' = "suggest" /\ UNCHANGED <<brace_i, closing_brace>>
           ELSE IF snip[1] = <<"}">>
           THEN /\ closing_brace' = Some(span_to(span, cur_sp'))
                /\ bpc' = "suggest"
                /\ UNCHANGED brace_i
           ELSE /\ brace_i' = brace_i + 1
                /\ bpc' = IF ExceedsCap(brace_i') THEN "suggest" ELSE "find_close"
                /\ UNCHANGED closing_brace
    /\ UNCHANGED <<src_text, span, source, def_span, followed, err>>
    /\ UNCHANGED <<typoVars, findVars, lifeVars, reportVars, missVars, labelVars>>

\* The match on `source` and the fallback labels (lines 483-517).
SuggestStructSyntax ==
    /\ bpc = "suggest"
    /\ err' = bad_struct_syntax_suggestion(err, source, span,
                  [followed_by_brace |-> followed, closing_brace |-> closing_brace],
                  SubSeq(src_text, span.lo + 1, span.hi), def_span)
    /\ bpc' = "done"
    /\ UNCHANGED <<src_text, span, source, def_span, cur_sp, brace_i, followed, closing_brace>>
    /\ UNCHANGED <<typoVars, findVars, lifeVars, reportVars, missVars, labelVars>>

BraceNext == SkipWhitespace \/ SearchClosingBrace \/ SuggestStructSyntax

\* The position of the first non-whitespace character after the path, or one
\* past the end of the text.
FirstNonWs(text, from) ==
    CHOOSE p \in (from + 1)..(Len(text) + 1) :
        /\ p = Len(text) + 1 \/ ~is_whitespace(text[p])
        /\ \A q \in (from + 1)..(p - 1) : is_whitespace(text[q])

\* The closing braces the search can meet: the "}" among the LookaheadChars
\* characters after position p.
ClosersAfter(text, p) ==
    {q \in (p + 1)..Min(Len(text), p + LookaheadChars) : text[q] = <<"}">>[1]}

SetMin(S) == CHOOSE x \in S : \A y \in S : x <= y

ParenHint == "you might want to surround a struct literal with parentheses"

\* C7: for a path in expression position without parent expression whose span
\* is followed, after whitespace, by "{": if a closing "}" is met within the
\* lookahead cap, exactly one two-part edit is proposed, "(" at the start of the
\* path span and ")" just after that brace; if none is met within the cap, only
\* the label hinting at parentheses is attached and no multi-part edit.
C7_StructLiteralParentheses ==
    bpc = "done" /\ source = ExprNone =>
        LET p == FirstNonWs(src_text, span.hi)
        IN  p <= Len(src_text) /\ src_text[p] = "{" =>
                LET closers == ClosersAfter(src_text, p)
                IN  /\ err.suggestions = << >>
                    /\ closers # {} =>
                           /\ err.labels = << >>
                           /\ Len(err.multiparts) = 1
                           /\ err.multiparts[1].parts =
                                  << [span |-> Span(span.lo, span.lo), text |-> <<"(">>],
                                     [span |-> Span(SetMin(closers), SetMin(closers)),
                                      text |-> <<")">>] >>
                    /\ closers = {} =>
                           /\ err.multiparts = << >>
                           /\ Len(err.labels) = 1
                           /\ err.labels[1].span = span
                           /\ err.labels[1].msg[1] = ParenHint

\* C7's case: whitespace, then "{", and the closing brace as far away as the
\* cap lets the search see; the two-part edit is proposed.
C7_Witness ==
    /\ bpc = "done" /\ source = ExprNone
    /\ LET p == FirstNonWs(src_text, span.hi)
       IN  /\ p > span.hi + 1
           /\ p <= Len(src_text) /\ src_text[p] = "{"
           /\ ClosersAfter(src_text, p) = {p + LookaheadChars}
    /\ Len(err.multiparts) = 1

\* C15: the search for the closing brace is bounded to 100 lookahead steps:
\* it inspects at most 100 positions after the first non-whitespace position
\* that follows the span, and a "}" lying more than 100 positions after that
\* position is never reported as the closing brace.
C15_AtMostHundredPositionsInspected ==
    bpc \in {"find_close", "suggest", "done"} =>
        LET p == FirstNonWs(src_text, span.hi)
        IN  /\ cur_sp.hi - p <= LookaheadCap
            /\ closing_brace # None => closing_brace[1].hi - p <= LookaheadCap

\* C15's case: the search stopped by its cap, with a "}" further on in the
\* text that is not reported.
C15_Witness ==
    /\ bpc = "done" /\ followed
    /\ ExceedsCap(brace_i)
    /\ closing_brace = None
    /\ LET p == FirstNonWs(src_text, span.hi)
       IN  \E q \in (p + LookaheadCap + 1)..Len(src_text) : src_text[q] = "}"

\* The nesting depth at position q of the braces opened from position p on.
BraceDepth(text, p, q) ==
    Cardinality({r \in p..q : text[r] = "{"}) - Cardinality({r \in p..q : text[r] = "}"})

\* Position q holds the brace that closes the one opened at position p.
MatchesOpening(text, p, q) ==
    /\ q \in (p + 1)..Len(text)
    /\ BraceDepth(text, p, q) = 0
    /\ \A r \in p..(q - 1) : BraceDepth(text, p, r) > 0

\* C16: a closing brace reported for a span followed by "{" is the brace that
\* matches that "{", nested pairs skipped, so that the parentheses enclose
\* the full struct literal.
C16_ClosingBraceMatchesOpening ==
    bpc \in {"suggest", "done"} /\ followed /\ closing_brace # None =>
        MatchesOpening(src_text, FirstNonWs(src_text, span.hi), closing_brace[1].hi)

(***************************************************************************)
(* Lifetime elision diagnostics (lines 33-59, 1099-1248).                  *)
(***************************************************************************)
\* MissingLifetimeSpot::Generics(generics): the list's span and its params.
Generics(gspan, ps) == [spot |-> "Generics", span |-> gspan, params |-> ps]
\* MissingLifetimeSpot::HigherRanked { span, span_type }
HigherRanked(hspan, span_type) ==
    [spot |-> "HigherRanked", span |-> hspan, span_type |-> span_type]

GenericParam(pspan, synthetic) == [span |-> pspan, synthetic |-> synthetic]

\* ForLifetimeSpanType::descr
descr(span_type) ==
    IF span_type \in {"BoundEmpty", "BoundTail"} THEN "bound" ELSE "type"

\* ForLifetimeSpanType::suggestion: format!("for<{}> ", sugg) or format!(", {}", sugg)
suggestion(span_type, sugg) ==
    IF span_type \in {"BoundEmpty", "TypeEmpty"}
    THEN <<"f", "o", "r", "<">> \o sugg \o <<">", " ">>
    ELSE <<",", " ">> \o sugg

\* generics.params.iter().find(|p| not a synthetic impl-Trait type parameter)
RECURSIVE FirstDeclared(_)
FirstDeclared(ps) ==
    IF ps = << >> THEN None
    ELSE IF ~Head(ps).synthetic THEN Some(Head(ps))
    ELSE FirstDeclared(Tail(ps))

FreshName == <<"'", "a">>

\* The first part of a fresh-name suggestion: where 'a is introduced.
IntroducePart(missing) ==
    IF missing.spot = "Generics"
    THEN LET param == FirstDeclared(missing.params)
         IN  IF param # None
             THEN [span |-> shrink_to_lo(param[1].span), text |-> FreshName \o <<",", " ">>]
             ELSE [span |-> missing.span, text |-> <<"<">> \o FreshName \o <<">">>]
    ELSE [span |-> missing.span, text |-> suggestion(missing.span_type, FreshName)]

starts_with(text, prefix) ==
    Len(text) >= Len(prefix) /\ SubSeq(text, 1, Len(prefix)) = prefix
ends_with(text, c) == text # << >> /\ text[Len(text)] = c

\* The parts that rewrite the elision-failure parameters (lines 1181-1191).
RECURSIVE ParamParts(_)
ParamParts(ps) ==
    IF ps = << >> THEN << >>
    ELSE LET param == Head(ps)
             snip  == param.snippet
         IN  (IF snip = None THEN << >>
              ELSE IF starts_with(snip[1], <<"&">>) /\ ~starts_with(snip[1], <<"&", "'">>)
              THEN <<[span |-> param.span,
                      text |-> <<"&">> \o FreshName \o <<" ">>
                               \o SubSeq(snip[1], 2, Len(snip[1]))]>>
              ELSE IF starts_with(snip[1], <<"&", "'", "_", " ">>)
              THEN <<[span |-> param.span,
                      text |-> <<"&">> \o FreshName \o <<" ">>
                               \o SubSeq(snip[1], 5, Len(snip[1]))]>>
              ELSE << >>)
             \o ParamParts(Tail(ps))

\* A slip that never leaves the loop over the spots early.
ShouldBreakNever(missing) == FALSE

\* should_break: true for MissingLifetimeSpot::Generics, false for HigherRanked.
should_break(missing) == missing.spot = "Generics"

\* suggest_new (lines 1147-1198): the spots from the most recent one outward,
\* stopping after the first generics list; k is the spot the loop is at.
RECURSIVE suggest_new(_, _, _, _, _, _)
suggest_new(e, spots, k, ps, at, sugg) ==
    IF k < 1 THEN e
    ELSE LET missing == spots[k]
             e1 == IF missing.spot = "HigherRanked"
                   THEN note(e, "for more information on higher-ranked polymorphism")
                   ELSE e
             msg == IF missing.spot = "Generics"
                    THEN <<"consider introducing a named lifetime parameter">>
                    ELSE <<"consider making the lifetime-generic with a new 'a lifetime",
                           descr(missing.span_type)>>
             parts == <<IntroducePart(missing)>> \o ParamParts(ps)
                      \o <<[span |-> at, text |-> sugg]>>
             e2 == multipart_suggestion(e1, msg, parts, "MaybeIncorrect")
         IN  IF should_break(missing) THEN e2
             ELSE suggest_new(e2, spots, k - 1, ps, at, sugg)

\* suggest_existing (lines 1139-1146)
suggest_existing(e, at, lts, sugg) ==
    span_suggestion(e, at, <<"consider using the lifetime", lts[1]>>, sugg,
                    "MaybeIncorrect")

RECURSIVE RepeatText(_, _)
RepeatText(t, n) == IF n <= 0 THEN << >> ELSE t \o RepeatText(t, n - 1)

\* std::iter::repeat(name).take(count).collect::<Vec<_>>().join(", ")
RECURSIVE JoinRepeated(_, _)
JoinRepeated(t, n) ==
    IF n <= 0 THEN << >>
    ELSE IF n = 1 THEN t
    ELSE t \o <<",", " ">> \o JoinRepeated(t, n - 1)

\* A slip that drops the `!snippet.ends_with('>')` guard of the last arm.
ReuseTextNoGuard(snip, name, n) ==
    CASE snip = <<"&">> -> Some(<<"&">> \o name \o <<" ">>)
      [] snip = <<"'", "_">> -> Some(name)
      [] snip = << >> -> Some(RepeatText(name \o <<",", " ">>, n))
      [] OTHER -> Some(snip \o <<"<">> \o JoinRepeated(name, n) \o <<">">>)

\* The four arms for one visible name (lines 1201-1222): the text handed to
\* suggest_existing, or None when no arm matches.
ReuseText(snip, name, n) ==
    CASE snip = <<"&">> -> Some(<<"&">> \o name \o <<" ">>)
      [] snip = <<"'", "_">> -> Some(name)
      [] snip = << >> -> Some(RepeatText(name \o <<",", " ">>, n))
      [] OTHER -> IF ~ends_with(snip, ">")
                  THEN Some(snip \o <<"<">> \o JoinRepeated(name, n) \o <<">">>)
                  ELSE None

\* A slip that writes the fresh reference without its trailing space.
FreshTextNoSpace(snip, n) ==
    IF n # 1 THEN None
    ELSE CASE snip = <<"&">> -> Some(<<"&">> \o FreshName)
           [] snip = <<"'", "_">> -> Some(FreshName)
           [] OTHER -> IF ~ends_with(snip, ">")
                       THEN Some(snip \o <<"<">> \o FreshName \o <<">">>)
                       ELSE None

\* The three arms for no visible name (lines 1223-1231): the text handed to
\* suggest_new, or None when no arm matches.
FreshText(snip, n) ==
    IF n # 1 THEN None
    ELSE CASE snip = <<"&">> -> Some(<<"&">> \o FreshName \o <<" ">>)
           [] snip = <<"'", "_">> -> Some(FreshName)
           [] OTHER -> IF ~ends_with(snip, ">")
                       THEN Some(snip \o <<"<">> \o FreshName \o <<">">>)
                       ELSE None

pluralize(n) == IF n = 1 THEN "" ELSE "s"

\* A slip that writes the placeholder once, whatever the count.
PlaceholderTextOnce(n) == <<"'", "l", "i", "f", "e", "t", "i", "m", "e", ",", " ">>

\* "'lifetime, ".repeat(count)
PlaceholderText(n) ==
    RepeatText(<<"'", "l", "i", "f", "e", "t", "i", "m", "e", ",", " ">>, n)

\* add_missing_lifetime_specifiers_label (lines 1120-1248)
add_missing_lifetime_specifiers_label(e, at, snip, n, lts, ps, spots) ==
    LET e0 == span_label(e, at, <<"expected lifetime parameter",
                                  IF n = 1 THEN "named" ELSE "counted", pluralize(n)>>)
    IN  IF Len(lts) = 1 /\ snip # None /\ ReuseText(snip[1], lts[1], n) # None
        THEN suggest_existing(e0, at, lts, ReuseText(snip[1], lts[1], n)[1])
        ELSE IF Len(lts) = 0 /\ snip # None /\ FreshText(snip[1], n) # None
        THEN suggest_new(e0, spots, Len(spots), ps, at, FreshText(snip[1], n)[1])
        ELSE IF Len(lts) > 1
        THEN LET e1 == [e0 EXCEPT !.notes =
                           Append(@, <<"these named lifetimes are available to use",
                                       lts>>)]
             IN  IF snip = Some(<< >>)
                 THEN span_suggestion(e1, at,
                          "consider using one of the available lifetimes here",
                          PlaceholderText(n),
                          "HasPlaceholders")
                 ELSE e1
        ELSE e0

\* A slip that takes the first parameter of the list, synthetic or not.
UndeclaredSpanSuggAtHead(generics, name) ==
    IF generics.params # << >>
    THEN [span |-> shrink_to_lo(Head(generics.params).span), text |-> name \o <<",", " ">>,
          in_band |-> FALSE]
    ELSE [span |-> generics.span, text |-> <<"<">> \o name \o <<">">>, in_band |-> TRUE]

\* Lines 1048-1062: the (span, sugg) pair of a generics spot, and whether
\* suggests_in_band is set.
undeclared_span_sugg(generics, name) ==
    LET param == FirstDeclared(generics.params)
    IN  IF param # None
        THEN [span |-> shrink_to_lo(param[1].span), text |-> name \o <<",", " ">>,
              in_band |-> FALSE]
        ELSE [span |-> generics.span, text |-> <<"<">> \o name \o <<">">>,
              in_band |-> TRUE]

\* The loop of lines 1045-1085 from spot k on: `for missing in
\* &self.missing_named_lifetime_spots`, in the order of the stack.
RECURSIVE UndeclaredSpots(_, _, _, _, _)
UndeclaredSpots(e, lt, spots, k, suggests_in_band) ==
    IF k > Len(spots) THEN [err |-> e, suggests_in_band |-> suggests_in_band]
    ELSE LET missing == spots[k]
         IN  IF missing.spot = "Generics"
             THEN LET ss == undeclared_span_sugg(missing, lt.name)
                  IN  UndeclaredSpots(
                          span_suggestion(e, ss.span,
                              <<"consider introducing lifetime here", lt.name>>,
                              ss.text, "MaybeIncorrect"),
                          lt, spots, k + 1, suggests_in_band \/ ss.in_band)
             ELSE UndeclaredSpots(
                      note(span_suggestion(e, missing.span,
                               <<"consider making lifetime-generic with a new lifetime",
                                 descr(missing.span_type), lt.name>>,
                               suggestion(missing.span_type, lt.name), "MaybeIncorrect"),
                           "for more information on higher-ranked polymorphism"),
                      lt, spots, k + 1, suggests_in_band)

\* emit_undeclared_lifetime_error (lines 1036-1097)
emit_undeclared_lifetime_error(lt, spots, nightly, in_band_lifetimes) ==
    LET e0 == span_label([EmptyErr EXCEPT !.code = "E0261"], lt.span,
                         "undeclared lifetime")
        r  == UndeclaredSpots(e0, lt, spots, 1, FALSE)
    IN  IF nightly /\ ~in_band_lifetimes /\ r.suggests_in_band
        THEN help(r.err, "if you want to experiment with in-band lifetime bindings")
        ELSE r.err

(***************************************************************************)
(* The binder-site stack and the calls of the elision diagnosis.           *)
(***************************************************************************)
MaxSpots == 2
MaxCount == 2

ElidedSpan == Span(40, 41)

\* The generics lists an item can be entered with: no parameter, only a
\* synthetic impl-Trait parameter, a synthetic one before a declared one.
GenericsLists ==
    { Generics(Span(10, 10), << >>),
      Generics(Span(10, 10), <<GenericParam(Span(20, 27), TRUE)>>),
      Generics(Span(10, 14), <<GenericParam(Span(20, 27), TRUE),
                               GenericParam(Span(11, 13), FALSE)>>) }

\* The poly trait references is_trait_ref_fn_scope is asked about.
TraitRefs ==
    { [fn_family |-> TRUE, span |-> Span(30, 38), bound_generic_params |-> << >>],
      [fn_family |-> TRUE, span |-> Span(30, 38),
       bound_generic_params |-> <<GenericParam(Span(34, 36), FALSE)>>],
      [fn_family |-> FALSE, span |-> Span(30, 38), bound_generic_params |-> << >>] }

\* The snippets at the elided position: unreadable, empty, `&`, `'_`, a path,
\* a path with generic arguments.
Snippets ==
    { None, Some(<< >>), Some(<<"&">>), Some(<<"'", "_">>), Some(<<"T">>),
      Some(<<"T", "<", "U", ">">>) }

NameSets == { << >>, << <<"'", "x">> >>, << <<"'", "x">>, <<"'", "y">> >> }

ElisionParam(pspan, snip) == [span |-> pspan, snippet |-> snip]

ParamLists ==
    { << >>,
      << ElisionParam(Span(50, 52), Some(<<"&", "T">>)) >>,
      << ElisionParam(Span(50, 55), Some(<<"&", "'", "_", " ", "T">>)),
         ElisionParam(Span(60, 61), Some(<<"T">>)) >>,
      << ElisionParam(Span(50, 52), None),
         ElisionParam(Span(60, 65), Some(<<"&", "'", "b", " ", "T">>)) >> }

LifeIdle ==
    /\ missing_named_lifetime_spots = << >>
    /\ snippet = None
    /\ count = 1
    /\ lifetime_names = << >>
    /\ params = << >>
    /\ lifetime_ref = None
    /\ lt_err = EmptyErr
    /\ lpc = "idle"

\* The context as constructed: no binder site entered yet.
LifeInit ==
    /\ missing_named_lifetime_spots = << >>
    /\ snippet = None
    /\ count = 1
    /\ lifetime_names = << >>
    /\ params = << >>
    /\ lifetime_ref = None
    /\ lt_err = EmptyErr
    /\ lpc = "visit"

\* An item with a generic-parameter list is entered: its list is pushed.
PushGenerics ==
    /\ lpc = "visit"
    /\ Len(missing_named_lifetime_spots) < MaxSpots
    /\ \E g \in GenericsLists :
           missing_named_lifetime_spots' = Append(missing_named_lifetime_spots, g)
    /\ UNCHANGED <<snippet, count, lifetime_names, params, lifetime_ref, lt_err, lpc>>
    /\ UNCHANGED <<typoVars, findVars, braceVars, reportVars, missVars, labelVars>>

\* is_trait_ref_fn_scope (lines 1099-1118): a reference to Fn, FnMut or FnOnce
\* pushes a higher-ranked spot; any other trait reference pushes nothing.
is_trait_ref_fn_scope ==
    /\ lpc = "visit"
    /\ Len(missing_named_lifetime_spots) < MaxSpots
    /\ \E t \in TraitRefs :
           /\ t.fn_family
           /\ missing_named_lifetime_spots' =
                  Append(missing_named_lifetime_spots,
                         IF t.bound_generic_params = << >>
                         THEN HigherRanked(shrink_to_lo(t.span), "BoundEmpty")
                         ELSE HigherRanked(
                                  shrink_to_hi(t.bound_generic_params[
                                      Len(t.bound_generic_params)].span),
                                  "BoundTail"))
    /\ UNCHANGED <<snippet, count, lifetime_names, params, lifetime_ref, lt_err, lpc>>
    /\ UNCHANGED <<typoVars, findVars, braceVars, reportVars, missVars, labelVars>>

\* The binder site entered last is left: its spot is popped.
PopSpot ==
    /\ lpc = "visit"
    /\ missing_named_lifetime_spots # << >>
    /\ missing_named_lifetime_spots' =
           SubSeq(missing_named_lifetime_spots, 1, Len(missing_named_lifetime_spots) - 1)
    /\ UNCHANGED <<snippet, count, lifetime_names, params, lifetime_ref, lt_err, lpc>>
    /\ UNCHANGED <<typoVars, findVars, braceVars, reportVars, missVars, labelVars>>

\* An elision failure is reported: add_missing_lifetime_specifiers_label runs.
AddMissingLifetimeLabel ==
    /\ lpc = "visit"
    /\ \E sn \in Snippets, n \in 1..MaxCount, nm \in NameSets, ps \in ParamLists :
           /\ snippet' = sn
           /\ count' = n
           /\ lifetime_names' = nm
           /\ params' = ps
           /\ lt_err' = add_missing_lifetime_specifiers_label(
                            EmptyErr, ElidedSpan, sn, n, nm, ps,
                            missing_named_lifetime_spots)
    /\ lpc' = "reported"
    /\ UNCHANGED <<missing_named_lifetime_spots, lifetime_ref>>
    /\ UNCHANGED <<typoVars, findVars, braceVars, reportVars, missVars, labelVars>>

\* The lifetimes that are used without a declaration: the name and its span.
UndeclaredLifetimes ==
    { [name |-> <<"'", "a">>, span |-> Span(70, 72)],
      [name |-> <<"'", "b">>, span |-> Span(80, 82)] }

\* A lifetime name is used that no binder declares: emit_undeclared_lifetime_error
\* runs on the spots of the stack.
EmitUndeclaredLifetimeError ==
    /\ lpc = "visit"
    /\ \E lt \in UndeclaredLifetimes, nightly \in BOOLEAN, in_band_lifetimes \in BOOLEAN :
           /\ lifetime_ref' = Some(lt)
           /\ lt_err' = emit_undeclared_lifetime_error(lt, missing_named_lifetime_spots,
                                                       nightly, in_band_lifetimes)
    /\ lpc' = "undeclared"
    /\ UNCHANGED <<missing_named_lifetime_spots, snippet, count, lifetime_names, params>>
    /\ UNCHANGED <<typoVars, findVars, braceVars, reportVars, missVars, labelVars>>

LifeNext ==
    \/ PushGenerics
    \/ is_trait_ref_fn_scope
    \/ PopSpot
    \/ AddMissingLifetimeLabel
    \/ EmitUndeclaredLifetimeError

(***************************************************************************)
(* Properties of add_missing_lifetime_specifiers_label.                    *)
(***************************************************************************)
\* The text unit written n times over.
Times(unit, n) == [k \in 1..(n * Len(unit)) |-> unit[((k - 1) % Len(unit)) + 1]]

\* unit, n times, separated by ", ".
CommaList(unit, n) ==
    LET all == Times(unit \o <<",", " ">>, n) IN SubSeq(all, 1, Len(all) - 2)

\* C8: with exactly one visible lifetime name N and a readable snippet S at the
\* elided position, exactly one suggestion reusing N is made, and its text is
\* "&" N " " when S is "&"; N when S is "'_"; N ", " count times when S is
\* empty; S "<" N, .., N ">" (count times) for any other S that does not end
\* with ">"; no suggestion is made when S ends with ">".
C8_ReuseOfTheSingleName ==
    lpc = "reported" /\ Len(lifetime_names) = 1 /\ snippet # None =>
        LET S == snippet[1]
            N == lifetime_names[1]
        IN  /\ lt_err.multiparts = << >>
            /\ IF ends_with(S, ">")
               THEN lt_err.suggestions = << >>
               ELSE /\ Len(lt_err.suggestions) = 1
                    /\ lt_err.suggestions[1].span = ElidedSpan
                    /\ lt_err.suggestions[1].msg = <<"consider using the lifetime", N>>
                    /\ lt_err.suggestions[1].text =
                           IF S = <<"&">> THEN <<"&">> \o N \o <<" ">>
                           ELSE IF S = <<"'", "_">> THEN N
                           ELSE IF S = << >> THEN Times(N \o <<",", " ">>, count)
                           ELSE S \o <<"<">> \o CommaList(N, count) \o <<">">>

\* C8's case: one name, a path as the snippet and two lifetimes expected: the
\* name is written twice in a fresh argument list.
C8_Witness ==
    /\ lpc = "reported"
    /\ lifetime_names = << <<"'", "x">> >>
    /\ snippet = Some(<<"T">>)
    /\ count = 2
    /\ Len(lt_err.suggestions) = 1
    /\ lt_err.suggestions[1].text = <<"T", "<", "'", "x", ",", " ", "'", "x", ">">>

\* The text holds the fresh lifetime name 'a.
HoldsFreshName(text) ==
    \E k \in 1..(Len(text) - 1) : text[k] = "'" /\ text[k + 1] = "a"

\* The part lies at the binder site: at the higher-ranked spot's span, or at
\* the generics list's span or in front of one of its parameters.
AtBinderSite(part, spot) ==
    IF spot.spot = "HigherRanked" THEN part.span = spot.span
    ELSE \/ part.span = spot.span
         \/ \E k \in 1..Len(spot.params) : part.span = shrink_to_lo(spot.params[k].span)

\* A multi-part suggestion that introduces 'a at the spot and writes "&'a " at
\* the elided position.
IntroducesFreshReference(m, spot) ==
    /\ HoldsFreshName(m.parts[1].text)
    /\ AtBinderSite(m.parts[1], spot)
    /\ m.parts[Len(m.parts)] = [span |-> ElidedSpan, text |-> <<"&", "'", "a", " ">>]

\* C9 as stated: whenever the call has no visible name, count 1 and the snippet
\* "&", it proposes a suggestion that introduces 'a at a binder site and
\* replaces the elided position with "&'a ".
C9_AlwaysProposesFreshName ==
    lpc = "reported" /\ lifetime_names = << >> /\ count = 1 /\ snippet = Some(<<"&">>) =>
        \E j \in 1..Len(lt_err.multiparts) :
            \E k \in 1..Len(missing_named_lifetime_spots) :
                IntroducesFreshReference(lt_err.multiparts[j],
                                         missing_named_lifetime_spots[k])

\* The spots suggest_new visits: from the top of the stack down to the first
\* generics list, that list included.
VisitedSpots(spots) ==
    {k \in 1..Len(spots) : \A h \in (k + 1)..Len(spots) : spots[h].spot = "HigherRanked"}

\* C9 (amended): with no visible name, count 1 and the snippet "&", one
\* suggestion is proposed for each spot of the binder-site stack that is
\* visited, most recent first, each introducing 'a at its spot and replacing
\* the elided position with "&'a "; with an empty stack nothing is proposed.
C9_FreshNamePerVisitedSpot ==
    lpc = "reported" /\ lifetime_names = << >> /\ count = 1 /\ snippet = Some(<<"&">>) =>
        LET spots == missing_named_lifetime_spots
        IN  /\ lt_err.suggestions = << >>
            /\ Len(lt_err.multiparts) = Cardinality(VisitedSpots(spots))
            /\ \A j \in 1..Len(lt_err.multiparts) :
                   IntroducesFreshReference(lt_err.multiparts[j],
                                            spots[Len(spots) - j + 1])

\* C9's case: a higher-ranked spot inside a generics list: both are offered.
C9_Witness ==
    /\ lpc = "reported" /\ lifetime_names = << >> /\ count = 1
    /\ snippet = Some(<<"&">>)
    /\ Len(missing_named_lifetime_spots) = 2
    /\ missing_named_lifetime_spots[1].spot = "Generics"
    /\ missing_named_lifetime_spots[2].spot = "HigherRanked"
    /\ params # << >>
    /\ Len(lt_err.multiparts) = 2

\* C17: when a fresh lifetime is introduced, the binder-site stack is visited
\* from the most recently pushed spot outward; each visited spot gets one
\* multi-part suggestion; the visit goes on past higher-ranked spots and ends
\* right after the first generics list, so that no spot outside that list gets
\* a suggestion; an empty stack yields no suggestion.
C17_FreshNameVisitsSpotsOutward ==
    /\ lpc = "reported" /\ lifetime_names = << >> /\ count = 1
    /\ snippet # None /\ ~ends_with(snippet[1], ">")
    => LET spots == missing_named_lifetime_spots
           made  == lt_err.multiparts
       IN  /\ lt_err.suggestions = << >>
           /\ Len(made) = Cardinality(VisitedSpots(spots))
           /\ spots = << >> => made = << >>
           /\ \A j \in 1..Len(made) :
                  LET spot == spots[Len(spots) - j + 1]
                  IN  /\ AtBinderSite(made[j].parts[1], spot)
                      /\ HoldsFreshName(made[j].parts[1].text)
                      /\ made[j].parts[Len(made[j].parts)].span = ElidedSpan
                      /\ j < Len(made) => spot.spot = "HigherRanked"
                      /\ spot.spot = "Generics" <=>
                             made[j].msg = <<"consider introducing a named lifetime parameter">>

\* C17's case: a generics list inside another one, the snippet is '_: only the
\* inner list gets a suggestion.
C17_Witness ==
    /\ lpc = "reported" /\ lifetime_names = << >> /\ count = 1
    /\ snippet = Some(<<"'", "_">>)
    /\ Len(missing_named_lifetime_spots) = 2
    /\ missing_named_lifetime_spots[1].spot = "Generics"
    /\ missing_named_lifetime_spots[2].spot = "Generics"
    /\ missing_named_lifetime_spots[1] # missing_named_lifetime_spots[2]
    /\ Len(lt_err.multiparts) = 1

\* C18: with more than one visible lifetime name, for any snippet, an
\* unreadable one included, and any count, a note listing the visible names is
\* emitted and neither a name is reused nor a fresh one introduced; a
\* suggestion is made only when the snippet is the empty text, and then it is
\* "'lifetime, " count times with the has-placeholders applicability.
C18_SeveralNamesAreOnlyListed ==
    lpc = "reported" /\ Len(lifetime_names) > 1 =>
        /\ lt_err.notes = << <<"these named lifetimes are available to use",
                               lifetime_names>> >>
        /\ lt_err.multiparts = << >>
        /\ lt_err.suggestions =
               IF snippet = Some(<< >>)
               THEN << [span |-> ElidedSpan,
                        msg |-> "consider using one of the available lifetimes here",
                        text |-> Times(<<"'", "l", "i", "f", "e", "t", "i", "m", "e",
                                         ",", " ">>, count),
                        applicability |-> "HasPlaceholders"] >>
               ELSE << >>

\* C18's case: two names, the empty snippet and two lifetimes expected.
C18_Witness ==
    /\ lpc = "reported"
    /\ Len(lifetime_names) = 2
    /\ snippet = Some(<< >>)
    /\ count = 2
    /\ Len(lt_err.suggestions) = 1
    /\ Len(lt_err.suggestions[1].text) = 22

(***************************************************************************)
(* Properties of emit_undeclared_lifetime_error.                           *)
(***************************************************************************)
\* The parameters written in the list of a generics spot: the ones that are
\* not synthetic impl-Trait parameters, by their place in params.
WrittenParams(missing) == {i \in 1..Len(missing.params) : ~missing.params[i].synthetic}

\* What is to be proposed at a spot for the lifetime name: the place and the text.
ExpectedAtSpot(missing, name) ==
    IF missing.spot = "Generics"
    THEN IF WrittenParams(missing) # {}
         THEN LET first == CHOOSE i \in WrittenParams(missing) :
                               \A j \in WrittenParams(missing) : i <= j
              IN  [span |-> Span(missing.params[first].span.lo,
                                 missing.params[first].span.lo),
                   text |-> name \o <<",", " ">>]
         ELSE [span |-> missing.span, text |-> <<"<">> \o name \o <<">">>]
    ELSE [span |-> missing.span,
          text |-> IF missing.span_type \in {"BoundEmpty", "TypeEmpty"}
                   THEN <<"f", "o", "r", "<">> \o name \o <<">", " ">>
                   ELSE <<",", " ">> \o name]

\* C21: emit_undeclared_lifetime_error offers exactly one suggestion per spot
\* of the binder-site stack, for every spot: at a generics list with a written
\* (non-synthetic) parameter the name and ", " are put right before the first
\* of them; at a generics list without one a fresh list "<" name ">" is
\* proposed at the generics span; at a higher-ranked spot "for<" name "> " is
\* put at an empty position and ", " name at a tail position.
C21_OneSuggestionPerSpot ==
    lpc = "undeclared" =>
        /\ Len(lt_err.suggestions) = Len(missing_named_lifetime_spots)
        /\ lt_err.multiparts = << >>
        /\ \A k \in 1..Len(missing_named_lifetime_spots) :
               LET want == ExpectedAtSpot(missing_named_lifetime_spots[k],
                                          lifetime_ref[1].name)
               IN  /\ lt_err.suggestions[k].span = want.span
                   /\ lt_err.suggestions[k].text = want.text

\* C21's case: a stack holding a generics list with a written parameter
\* behind a synthetic one and a higher-ranked spot; two suggestions are made.
C21_Witness ==
    /\ lpc = "undeclared"
    /\ Len(missing_named_lifetime_spots) = 2
    /\ missing_named_lifetime_spots[1].spot = "Generics"
    /\ Len(missing_named_lifetime_spots[1].params) = 2
    /\ missing_named_lifetime_spots[2].spot = "HigherRanked"
    /\ Len(lt_err.suggestions) = 2

(***************************************************************************)
(* smart_resolve_report_errors (lines 67-394, 611-685, 778-861).           *)
(***************************************************************************)
\* kw::SelfUpper, kw::SelfLower, kw::PathRoot
SelfUpper == <<"S", "e", "l", "f">>
SelfLower == <<"s", "e", "l", "f">>
PathRoot == <<"{", "{", "r", "o", "o", "t", "}", "}">>

This == <<"t", "h", "i", "s">>
My == <<"m", "y">>
Async == <<"a", "s", "y", "n", "c">>

\* Segment::names_to_string: the names joined by "::", the path root left out.
RECURSIVE JoinNames(_, _)
JoinNames(p, k) ==
    IF k > Len(p) THEN << >>
    ELSE (IF k > 1 THEN <<":", ":">> ELSE << >>)
         \o (IF p[k] = PathRoot THEN << >> ELSE p[k])
         \o JoinNames(p, k + 1)

names_to_string(p) == JoinNames(p, 1)

\* PathSource::namespace
namespace(src) == IF src.kind \in {"Type", "Trait", "Struct"} THEN "TypeNS" ELSE "ValueNS"

\* PathSource::is_expected
is_expected(src, r) ==
    CASE src.kind = "Type" ->
           r.kind \in {"Struct", "Union", "Enum", "Trait", "TraitAlias", "TyAlias",
                       "AssocTy", "TyParam", "PrimTy", "SelfTy"}
      [] src.kind = "Trait" -> r.kind = "Trait"
      [] src.kind = "Expr" ->
           r.kind \in {"CtorConst", "CtorFn", "Const", "Static", "Fn", "AssocFn",
                       "AssocConst", "Local", "SelfCtor"}
      [] src.kind = "Pat" -> r.kind \in {"CtorConst", "Const", "AssocConst", "SelfCtor"}
      [] src.kind = "TupleStruct" -> r.kind \in {"CtorFn", "SelfCtor"}
      [] src.kind = "Struct" ->
           r.kind \in {"Struct", "Union", "Variant", "TyAlias", "AssocTy", "SelfTy"}

\* PathSource::descr_expected
descr_expected(src) ==
    CASE src.kind = "Type" -> <<"t", "y", "p", "e">>
      [] src.kind = "Trait" -> <<"t", "r", "a", "i", "t">>
      [] src.kind = "Expr" -> <<"v", "a", "l", "u", "e">>
      [] src.kind = "Pat" -> <<"u", "n", "i", "t">>
      [] src.kind = "TupleStruct" -> <<"t", "u", "p", "l", "e">>
      [] src.kind = "Struct" -> <<"s", "t", "r", "u", "c", "t">>

\* PathSource::error_code(has_unexpected_resolution)
error_code(src, has_unexpected_resolution) ==
    CASE src.kind = "Type" -> IF has_unexpected_resolution THEN "E0573" ELSE "E0412"
      [] src.kind = "Trait" -> IF has_unexpected_resolution THEN "E0404" ELSE "E0405"
      [] src.kind = "Expr" -> IF has_unexpected_resolution THEN "E0423" ELSE "E0425"
      [] src.kind \in {"Pat", "TupleStruct"} ->
           IF has_unexpected_resolution THEN "E0532" ELSE "E0531"
      [] src.kind = "Struct" -> IF has_unexpected_resolution THEN "E0574" ELSE "E0422"

\* Res::opt_def_id: the kinds that are a Res::Def carry a DefId.
opt_def_id(r) ==
    IF r.kind \in {"Local", "PrimTy", "SelfTy", "SelfCtor"} THEN None ELSE Some(r.id)

is_self_type(p, nsp) == nsp = "TypeNS" /\ Len(p) = 1 /\ p[1] = SelfUpper

\* A slip that compares with the wrong keyword.
is_self_valueWrongKeyword(p, nsp) == nsp = "ValueNS" /\ Len(p) = 1 /\ p[1] = SelfUpper

is_self_value(p, nsp) == nsp = "ValueNS" /\ Len(p) = 1 /\ p[1] = SelfLower

span_suggestion_short(e, at, msg, text, applicability) ==
    [e EXCEPT !.suggestions =
        Append(@, [span |-> at, msg |-> msg, text |-> text,
                   applicability |-> applicability, style |-> "short"])]
span_suggestion_verbose(e, at, msg, text, applicability) ==
    [e EXCEPT !.suggestions =
        Append(@, [span |-> at, msg |-> msg, text |-> text,
                   applicability |-> applicability, style |-> "verbose"])]
\* One suggestion with several alternative replacements of the same span.
span_suggestions(e, at, msg, texts, applicability) ==
    [e EXCEPT !.choices =
        Append(@, [span |-> at, msg |-> msg, texts |-> texts,
                   applicability |-> applicability])]

\* The match on `res` that computes could_be_expr (lines 114-132).
could_be_expr(r, text, at) ==
    CASE r.kind = "Fn" ->
           LET snip == span_to_snippet(text, at)
           IN  snip # None /\ ends_with(snip[1], ")")
      [] r.kind \in {"CtorConst", "CtorFn", "CtorFictive", "AssocFn", "Const",
                     "AssocConst", "SelfCtor", "PrimTy", "Local"} -> TRUE
      [] OTHER -> FALSE

\* Lines 136-149: the text naming where the item was looked for.
mod_str(p) ==
    IF Len(p) = 1 THEN <<"this scope">>
    ELSE IF Len(p) = 2 /\ p[1] = PathRoot THEN <<"the crate root">>
    ELSE names_to_string(SubSeq(p, 1, Len(p) - 1))

\* Lines 109-160: fallback_label, base_span and could_be_expr.
BaseError(p, at, src, r, text) ==
    IF r # None
    THEN [fallback_label |-> <<"not a">> \o descr_expected(src),
          base_span |-> at,
          could_be_expr |-> could_be_expr(r[1], text, at)]
    ELSE [fallback_label |->
              IF names_to_string(p) = Async
                 /\ starts_with(descr_expected(src), <<"s", "t", "r", "u", "c", "t">>)
              THEN <<"async blocks are only allowed in the 2018 edition">>
              ELSE <<"not found in">> \o mod_str(p),
          base_span |-> Span(at.hi - Len(p[Len(p)]), at.hi),
          could_be_expr |-> FALSE]

\* extract_node_id (lines 620-629)
RECURSIVE extract_node_id(_)
extract_node_id(t) ==
    CASE t.kind = "Path" -> IF t.qself THEN None ELSE Some(t.id)
      [] t.kind = "Rptr" -> extract_node_id(t.ty)
      [] OTHER -> None

PathTy(id) == [kind |-> "Path", qself |-> FALSE, id |-> id]
QPathTy(id) == [kind |-> "Path", qself |-> TRUE, id |-> id]
RptrTy(t) == [kind |-> "Rptr", ty |-> t]
TupTy == [kind |-> "Tup"]

FieldV == <<"v">>
FieldW == <<"w">>

\* self.r.partial_res_map: node 1 names struct 201, node 2 an enum, node 3 is
\* struct 201 with one segment unresolved, node 4 names union 203, node 5 a
\* struct whose fields are not recorded, node 6 a type alias; node 7 has no entry.
partial_res_map ==
    (1 :> [base_res |-> Res("Struct", 201), unresolved_segments |-> 0]) @@
    (2 :> [base_res |-> Res("Enum", 202), unresolved_segments |-> 0]) @@
    (3 :> [base_res |-> Res("Struct", 201), unresolved_segments |-> 1]) @@
    (4 :> [base_res |-> Res("Union", 203), unresolved_segments |-> 0]) @@
    (5 :> [base_res |-> Res("Struct", 204), unresolved_segments |-> 0]) @@
    (6 :> [base_res |-> Res("TyAlias", 205), unresolved_segments |-> 0])

\* self.r.field_names
field_names ==
    (201 :> <<FieldV, This>>) @@ (203 :> <<FieldV>>)

\* self.r.has_self: the associated functions with a self parameter.
has_self == {401}

\* Lines 631-655: a field of the current self type has this name.
FieldCandidate(ident, src, meta) ==
    /\ is_expected(src, Res("Local", 0))
    /\ meta.current_self_type # None
    /\ LET node_id == extract_node_id(meta.current_self_type[1])
       IN  /\ node_id # None
           /\ node_id[1] \in DOMAIN partial_res_map
           /\ LET resolution == partial_res_map[node_id[1]]
              IN  /\ resolution.base_res.kind \in {"Struct", "Union"}
                  /\ resolution.unresolved_segments = 0
                  /\ resolution.base_res.id \in DOMAIN field_names
                  /\ \E k \in 1..Len(field_names[resolution.base_res.id]) :
                         field_names[resolution.base_res.id][k] = ident

\* Resolver::resolve_ident_in_module(module, ident, ns, ..): the first item of
\* the trait module with this name in this namespace.
RECURSIVE resolve_ident_in_module(_, _, _)
resolve_ident_in_module(items, ident, nsp) ==
    IF items = << >> THEN None
    ELSE IF Head(items).ident = ident /\ Head(items).ns = nsp THEN Some(Head(items).res)
    ELSE resolve_ident_in_module(Tail(items), ident, nsp)

\* lookup_assoc_candidate (lines 611-685)
lookup_assoc_candidate(ident, nsp, src, meta, trait_ref) ==
    IF FieldCandidate(ident, src, meta) THEN Some("Field")
    ELSE IF \E k \in 1..Len(meta.current_trait_assoc_types) :
                meta.current_trait_assoc_types[k] = ident
    THEN Some("AssocItem")
    ELSE IF trait_ref = None THEN None
    ELSE LET binding == resolve_ident_in_module(trait_ref[1], ident, nsp)
         IN  IF binding # None /\ is_expected(src, binding[1])
             THEN IF binding[1].id \in has_self THEN Some("MethodWithSelf")
                  ELSE Some("AssocItem")
             ELSE None

\* The loop of call_has_self_arg that looks through `&` (lines 367-388).
RECURSIVE FirstArgIsSelf(_)
FirstArgIsSelf(expr) ==
    CASE expr.kind = "Path" -> Len(expr.segments) = 1 /\ expr.segments[1] = SelfLower
      [] expr.kind = "AddrOf" -> FirstArgIsSelf(expr.expr)
      [] OTHER -> FALSE

\* call_has_self_arg (lines 361-394): Some((call_span, tail_args_span)) or None.
call_has_self_arg(src) ==
    IF src.kind = "Expr" /\ src.parent # None /\ src.parent[1].kind = "Call"
       /\ src.parent[1].args # << >> /\ FirstArgIsSelf(src.parent[1].args[1])
    THEN LET args == src.parent[1].args
         IN  Some([call_span |-> src.parent[1].span,
                   args_span |-> IF Len(args) > 1
                                 THEN Some(Span(args[2].span.lo, args[Len(args)].span.hi))
                                 ELSE None])
    ELSE None

\* A slip that rewrites to `self.` whether or not `self` is reachable.
RewritesFieldAlways(self_is_available) == TRUE

\* `if self_is_available` in the AssocSuggestion::Field arm.
RewritesField(self_is_available) == self_is_available

\* Lines 267-320: the field/method heuristic and the self-argument call;
\* `returned` tells whether the function returns here.
AssocHeuristic(e, p, at, src, text, meta, trait_ref, sta, sva) ==
    IF ~(Len(p) = 1 /\ sta) THEN [err |-> e, returned |-> FALSE]
    ELSE LET path_str == names_to_string(p)
             candidate == lookup_assoc_candidate(p[Len(p)], namespace(src), src, meta,
                                                 trait_ref)
             self_call == call_has_self_arg(src)
         IN  IF candidate # None
             THEN [returned |-> TRUE,
                   err |->
                     IF candidate[1] = "Field"
                     THEN IF RewritesField(sva)
                          THEN span_suggestion(e, at,
                                   "you might have meant to use the available field",
                                   <<"s", "e", "l", "f", ".">> \o path_str,
                                   "MachineApplicable")
                          ELSE span_label(e, at, <<"a field by this name exists in Self">>)
                     ELSE IF candidate[1] = "MethodWithSelf" /\ sva
                     THEN span_suggestion(e, at, "try",
                              <<"s", "e", "l", "f", ".">> \o path_str, "MachineApplicable")
                     ELSE span_suggestion(e, at, "try",
                              <<"S", "e", "l", "f", ":", ":">> \o path_str,
                              "MachineApplicable")]
             ELSE IF self_call # None
             THEN LET args_snippet ==
                          IF self_call[1].args_span = None THEN << >>
                          ELSE LET snip == span_to_snippet(text, self_call[1].args_span[1])
                               IN  IF snip = None THEN << >> ELSE snip[1]
                  IN  [returned |-> TRUE,
                       err |-> span_suggestion(e, self_call[1].call_span,
                                   <<"try calling as a method", p[Len(p)]>>,
                                   <<"s", "e", "l", "f", ".">> \o path_str \o <<"(">>
                                       \o args_snippet \o <<")">>,
                                   "MachineApplicable")]
             ELSE [err |-> e, returned |-> FALSE]

\* The characters of the paths that are sorted, in the order of their codes.
CharOrder ==
    <<"1", ":", "A", "B", "E", "F", "N", "O", "d", "e", "l", "n", "o", "p", "r", "s",
      "t", "u", "v">>
CharCode(c) == CHOOSE k \in 1..Len(CharOrder) : CharOrder[k] = c

\* The order of String: by character code, a proper prefix first.
RECURSIVE TextLess(_, _)
TextLess(a, b) ==
    IF b = << >> THEN FALSE
    ELSE IF a = << >> THEN TRUE
    ELSE IF Head(a) # Head(b) THEN CharCode(Head(a)) < CharCode(Head(b))
    ELSE TextLess(Tail(a), Tail(b))

\* The order of (String, String).
PairLess(x, y) == TextLess(x[1], y[1]) \/ (x[1] = y[1] /\ TextLess(x[2], y[2]))

RECURSIVE InsertPair(_, _)
InsertPair(sorted, x) ==
    IF sorted = << >> THEN <<x>>
    ELSE IF PairLess(x, Head(sorted)) THEN <<x>> \o sorted
    ELSE <<Head(sorted)>> \o InsertPair(Tail(sorted), x)

\* enum_candidates.sort()
RECURSIVE SortPairs(_)
SortPairs(s) ==
    IF s = << >> THEN << >> ELSE InsertPair(SortPairs(SubSeq(s, 1, Len(s) - 1)), s[Len(s)])

\* import_candidate_to_enum_paths (lines 76-88)
import_candidate_to_enum_paths(sugg) ==
    << names_to_string(sugg.path),
       names_to_string(SubSeq(sugg.path, 1, Len(sugg.path) - 1)) >>

Std == <<"s", "t", "d">>
Prelude == <<"p", "r", "e", "l", "u", "d", "e">>
V1 == <<"v", "1">>
StdPreludeV1 == names_to_string(<<Std, Prelude, V1>>)

\* str::trim_start_matches(prefix)
RECURSIVE trim_start_matches(_, _)
trim_start_matches(text, prefix) ==
    IF starts_with(text, prefix)
    THEN trim_start_matches(SubSeq(text, Len(prefix) + 1, Len(text)), prefix)
    ELSE text

\* Lines 250-262: the enum paths offered, the prelude module dropped and the
\* prelude prefix cut off.
RECURSIVE EnumTyPaths(_)
EnumTyPaths(cs) ==
    IF cs = << >> THEN << >>
    ELSE (IF Head(cs)[2] # StdPreludeV1
          THEN <<trim_start_matches(Head(cs)[2], StdPreludeV1 \o <<":", ":">>)>>
          ELSE << >>)
         \o EnumTyPaths(Tail(cs))

\* Lines 236-240: the text after the first variant in the preamble.
Others(n) ==
    CASE n = 1 -> << >>
      [] n = 2 -> <<" and ", 1, " other">>
      [] OTHER -> <<" and ", n, " others">>

\* Lines 215-220: an import candidate is dropped when it names what the path
\* resolved to.
KeptCandidates(imports, r) ==
    SelectSeq(imports,
              LAMBDA c : ~(/\ c.did # None
                           /\ r # None
                           /\ opt_def_id(r[1]) # None
                           /\ c.did[1] = opt_def_id(r[1])[1]))

\* Lines 223-266: the hint at the enums of variants with the path's name.
EnumHint(e, at, src, r, kept, variants) ==
    IF kept = << >> /\ is_expected(src, Res("Enum", 0))
    THEN LET enum_candidates ==
                 SortPairs([k \in 1..Len(variants) |->
                               import_candidate_to_enum_paths(variants[k])])
         IN  IF enum_candidates # << >>
             THEN span_suggestions(e, at,
                      [preamble |->
                           IF r = None
                           THEN Some([variant |-> enum_candidates[1][1],
                                      others |-> Others(Len(enum_candidates))])
                           ELSE None,
                       msg |-> "try using the variant's enum"],
                      EnumTyPaths(enum_candidates), "MachineApplicable")
             ELSE e
    ELSE e

\* Resolver::add_typo_suggestion: the suggestion, if there is one, is attached
\* at the identifier and the call answers whether it did so.
add_typo_suggestion(e, sugg, ident_span) ==
    IF sugg = None THEN [err |-> e, worked |-> FALSE]
    ELSE [err |-> span_suggestion(e, ident_span, "a similar name exists", sugg[1],
                                  "MaybeIncorrect"),
          worked |-> TRUE]

Try == <<"t", "r", "y">>

\* smart_resolve_context_dependent_help (lines 446-609): the diagnostic, whether
\* a rule fired, and whether the rule is bad_struct_syntax_suggestion, whose
\* lookahead is run step by step.
\* A slip that labels every inaccessible constructor, expected or not.
CtorNotVisibleWhateverItsKind(src, ctor) == ~ctor.accessible

\* if is_expected(ctor_def) && !accessible_ctor (line 574)
ctor_not_visible(src, ctor) == is_expected(src, ctor.ctor_def) /\ ~ctor.accessible

smart_resolve_context_dependent_help(e, at, src, r, path_str, fallback_label, rsv, dspan) ==
    LET nsp == namespace(src)
        fired(e1) == [err |-> e1, handled |-> TRUE, struct_syntax |-> FALSE]
        literal == [err |-> e, handled |-> TRUE, struct_syntax |-> TRUE]
    IN  CASE r.kind = "MacroBang" ->
               LET e1 == span_suggestion_verbose(e, shrink_to_hi(at),
                             "use ! to invoke the macro", <<"!">>, "MaybeIncorrect")
               IN  fired(IF path_str = Try /\ rsv.rust_2015
                         THEN note(e1, "if you want the try keyword, you need to be in the 2018 edition")
                         ELSE e1)
          [] r.kind = "TyAlias" /\ src.kind = "Trait" ->
               LET e1 == span_label(e, at, "type aliases cannot be used as traits")
               IN  fired(IF rsv.nightly
                         THEN IF dspan # None
                              THEN span_help(e1, dspan[1], "trait_alias")
                              ELSE help(e1, "trait_alias")
                         ELSE e1)
          [] r.kind = "Mod" /\ src.kind = "Expr" /\ src.parent # None ->
               LET sep == path_sep(e, src.parent[1], path_str)
               IN  [err |-> sep.err, handled |-> sep.suggested, struct_syntax |-> FALSE]
          [] r.kind = "Enum" /\ src.kind \in {"TupleStruct", "Expr"} ->
               IF rsv.enum_variants # None
               THEN IF rsv.enum_variants[1] # << >>
                    THEN fired(span_suggestions(e, at,
                                   IF Len(rsv.enum_variants[1]) = 1
                                   THEN "try using the enum's variant"
                                   ELSE "try using one of the enum's variants",
                                   [k \in 1..Len(rsv.enum_variants[1]) |->
                                       names_to_string(rsv.enum_variants[1][k])],
                                   "MaybeIncorrect"))
                    ELSE fired(e)
               ELSE fired(note(e, "did you mean to use one of the enum's variants?"))
          [] r.kind = "Struct" /\ nsp = "ValueNS" ->
               IF rsv.struct_constructors # None
               THEN IF ctor_not_visible(src, rsv.struct_constructors[1])
                    THEN fired(span_label(e, at,
                                   "constructor is not visible here due to private fields"))
                    ELSE fired(e)
               ELSE literal
          [] r.kind \in {"Union", "Variant", "CtorFictive"} /\ nsp = "ValueNS" -> literal
          [] r.kind = "CtorFn" /\ nsp = "ValueNS" ->
               LET e1 == IF dspan # None
                         THEN span_label(e, dspan[1], <<"defined here", path_str>>)
                         ELSE e
               IN  fired(span_label(e1, at, <<"did you mean a call", path_str>>))
          [] r.kind = "SelfTy" /\ nsp = "ValueNS" ->
               fired(note(span_label(e, at, fallback_label),
                          "can't use Self as a constructor, you must use the implemented struct"))
          [] r.kind \in {"TyAlias", "AssocTy"} /\ nsp = "ValueNS" ->
               fired(note(e, "can't use a type alias as a constructor"))
          [] OTHER -> [err |-> e, handled |-> FALSE, struct_syntax |-> FALSE]

\* SourceMap::lookup_char_pos(pos).line
LineOf(text, pos) ==
    1 + Cardinality({k \in 1..Min(pos, Len(text)) : text[k] = "\n"})

\* get_colon_suggestion_span (lines 779-782)
get_colon_suggestion_span(start) == span_to(start, next_point(start))

\* The bound of `for _ in 0..100` on the search for an assignment.
AssignScanCap == 100

\* The characters the capped search reads: every second step reads a new one.
AssignScanChars == AssignScanCap \div 2

\* One iteration of the search for `=` (lines 823-841): `hit` is whether the
\* suggestion was made, `done` whether the loop was left by a break.
AssignStep(st, text, bsp, base_snippet) ==
    LET sp1 == next_point(st.at)
        snip == span_to_snippet(text, span_to(sp1, next_point(sp1)))
    IN  IF snip = None THEN [st EXCEPT !.done = TRUE]
        ELSE IF snip[1] = <<"=">>
        THEN [st EXCEPT !.err = span_suggestion(st.err, bsp,
                                    "maybe you meant to write an assignment here",
                                    <<"l", "e", "t", " ">> \o base_snippet,
                                    "MaybeIncorrect"),
                        !.hit = TRUE, !.done = TRUE]
        ELSE IF snip[1] = <<"\n">> THEN [st EXCEPT !.done = TRUE]
        ELSE [st EXCEPT !.at = sp1]

\* n iterations in a row unless a break ends them: the first half, then the rest.
RECURSIVE AssignRun(_, _, _, _, _)
AssignRun(st, text, bsp, base_snippet, n) ==
    IF n = 0 \/ st.done THEN st
    ELSE IF n = 1 THEN AssignStep(st, text, bsp, base_snippet)
    ELSE AssignRun(AssignRun(st, text, bsp, base_snippet, n \div 2),
                   text, bsp, base_snippet, n - n \div 2)

\* Lines 822-842: `for _ in 0..100` over the iteration above.
AssignScan(e, text, bsp, base_snippet, at, left) ==
    LET st == AssignRun([err |-> e, hit |-> FALSE, at |-> at, done |-> FALSE],
                        text, bsp, base_snippet, left)
    IN  [err |-> st.err, hit |-> st.hit]

\* A slip that proposes the separator when a space follows the colon.
NotSpacedInverted(text, after_colon_sp) ==
    span_to_snippet(text, after_colon_sp) = Some(<<" ">>)

\* !sm.span_to_snippet(after_colon_sp).map(|s| s == " ").unwrap_or(false)
not_spaced(text, after_colon_sp) == span_to_snippet(text, after_colon_sp) # Some(<<" ">>)

\* Lines 795-851: what is done once the `:` is found at `at`.
ColonFound(e, text, bsp, at) ==
    IF LineOf(text, at.hi) # LineOf(text, bsp.lo)
    THEN span_label(
             span_suggestion_short(e, at, "did you mean to use ; here instead?",
                                   <<";">>, "MaybeIncorrect"),
             bsp, <<"expecting a type here because of type ascription">>)
    ELSE LET colon_sp == get_colon_suggestion_span(at)
             after_colon_sp == get_colon_suggestion_span(shrink_to_hi(colon_sp))
             separates == not_spaced(text, after_colon_sp)
             e1 == IF separates
                   THEN span_suggestion(e, colon_sp,
                            "maybe you meant to write a path separator here",
                            <<":", ":">>, "MaybeIncorrect")
                   ELSE e
             base_snippet == span_to_snippet(text, bsp)
             scan == IF base_snippet # None
                     THEN AssignScan(e1, text, bsp, base_snippet[1], after_colon_sp,
                                     AssignScanCap)
                     ELSE [err |-> e1, hit |-> FALSE]
         IN  IF ~separates /\ ~scan.hit
             THEN span_label(scan.err, bsp,
                             <<"expecting a type here because of type ascription">>)
             ELSE scan.err

\* One iteration of the loop of lines 789-859 that looks for the `:`.
ColonStep(st, text, bsp) ==
    LET sp1 == next_point(st.at)
        snip == span_to_snippet(text, span_to(sp1, next_point(sp1)))
    IN  IF snip = None THEN [st EXCEPT !.done = TRUE]
        ELSE IF snip[1] = <<":">>
        THEN [st EXCEPT !.err = ColonFound(st.err, text, bsp, sp1), !.done = TRUE]
        ELSE IF \E k \in 1..Len(snip[1]) : ~is_whitespace(snip[1][k])
        THEN [st EXCEPT !.done = TRUE]
        ELSE [st EXCEPT !.at = sp1]

\* n iterations in a row unless a break ends them: the first half, then the rest.
RECURSIVE ColonRun(_, _, _, _)
ColonRun(st, text, bsp, n) ==
    IF n = 0 \/ st.done THEN st
    ELSE IF n = 1 THEN ColonStep(st, text, bsp)
    ELSE ColonRun(ColonRun(st, text, bsp, n \div 2), text, bsp, n - n \div 2)

\* The loop has no counter: it goes on until a break, and the unreadable
\* snippet past the end of the text is one, two iterations per character on.
ColonScan(e, text, bsp, at) ==
    ColonRun([err |-> e, at |-> at, done |-> FALSE], text, bsp, 2 * Len(text) + 2).err

\* type_ascription_suggestion (lines 784-861)
type_ascription_suggestion(e, text, bsp, ascriptions) ==
    IF ascriptions = << >> THEN e
    ELSE ColonScan(e, text, bsp, ascriptions[Len(ascriptions)])

\* Span::contains and Span::between
contains(outer, inner) == outer.lo <= inner.lo /\ inner.hi <= outer.hi
between(a, b) == Span(a.hi, b.lo)

\* Lines 341-355: the fallback label and what goes with it.
FallbackLabel(e, b, text, meta) ==
    LET e1 == span_label(e, b.base_span, b.fallback_label)
        e2 == type_ascription_suggestion(e1, text, b.base_span,
                                         meta.current_type_ascription)
        binding == meta.current_let_binding
    IN  IF /\ binding # None
           /\ binding[1].ty_sp # None
           /\ binding[1].init_sp = None
           /\ contains(binding[1].ty_sp[1], b.base_span)
           /\ b.could_be_expr
        THEN span_suggestion_short(e2, between(binding[1].pat_sp, binding[1].ty_sp[1]),
                 "use = if you meant to assign", <<" ", "=", " ">>, "MaybeIncorrect")
        ELSE e2

(***************************************************************************)
(* The requests smart_resolve_report_errors is run on.                     *)
(***************************************************************************)
PatSource == [kind |-> "Pat", parent |-> None]
TypeSource == [kind |-> "Type", parent |-> None]
TraitSource == [kind |-> "Trait", parent |-> None]
StructSource == [kind |-> "Struct", parent |-> None]
TupleStructSource == [kind |-> "TupleStruct", parent |-> None]

PathExpr(segments, esp) == [kind |-> "Path", segments |-> segments, span |-> esp]
AddrOfExpr(expr, esp) == [kind |-> "AddrOf", expr |-> expr, span |-> esp]
LitExpr(esp) == [kind |-> "Lit", span |-> esp]

\* PathSource::Expr(Some(parent)) with parent a call of the path.
CallSource(esp, args) ==
    [kind |-> "Expr",
     parent |-> Some([kind |-> "Call", span |-> esp, ident |-> << >>,
                      ident_span |-> Span(0, 0), args |-> args])]

Meth == <<"m">>
Func == <<"n">>
Assoc == <<"T">>

\* The items of the current trait: a method, a function without self, a type.
TraitItems ==
    << [ident |-> Meth, ns |-> "ValueNS", res |-> Res("AssocFn", 401)],
       [ident |-> Func, ns |-> "ValueNS", res |-> Res("AssocFn", 402)],
       [ident |-> Assoc, ns |-> "TypeNS", res |-> Res("AssocTy", 403)] >>

\* The ways the current self type is written: none, a path to a struct, that
\* behind a reference, a tuple, paths to an enum, to a struct with a segment
\* left unresolved, to a union, to a struct without recorded fields, to a type
\* alias and to nothing recorded, and a qualified path.
SelfTypes ==
    {None, Some(PathTy(1)), Some(RptrTy(PathTy(1))), Some(TupTy), Some(PathTy(2)),
     Some(PathTy(3)), Some(PathTy(4)), Some(PathTy(5)), Some(PathTy(6)),
     Some(PathTy(7)), Some(QPathTy(1))}

DefaultMeta ==
    [current_self_type |-> None, current_trait_assoc_types |-> << >>,
     current_function |-> None, current_let_binding |-> None,
     current_type_ascription |-> << >>]

DefaultResolver ==
    [import_candidates |-> << >>, variant_candidates |-> << >>,
     struct_constructors |-> None, enum_variants |-> None,
     nightly |-> FALSE, rust_2015 |-> FALSE]

DefaultRequest ==
    [path |-> <<FieldW>>, source |-> ExprNone, res |-> None,
     self_type |-> TRUE, self_value |-> TRUE, meta |-> DefaultMeta, trait |-> None,
     resolver |-> DefaultResolver, typo |-> None,
     prefix |-> << >>, tail |-> <<";">>, def_span |-> None]

\* Bare and qualified names, some of them fields of the self type.
FieldRequests ==
    {[DefaultRequest EXCEPT !.path = p, !.source = s, !.res = r, !.self_type = a,
                            !.self_value = v, !.meta.current_self_type = t,
                            !.trait = tr, !.typo = ty] :
        p \in {<<FieldV>>, <<This>>, <<FieldW>>, <<FieldW, FieldV>>},
        s \in {ExprNone, PatSource, TypeSource},
        r \in {None, Some(Res("Mod", 300))},
        a \in BOOLEAN, v \in BOOLEAN, t \in SelfTypes,
        tr \in {None, Some(TraitItems)},
        ty \in {None, Some(<<"v", "v">>)}}

\* The call sources with the text that follows a one-character path.
CallShapes ==
    { [source |-> ExprNone, tail |-> <<";">>],
      [source |-> TypeSource, tail |-> <<";">>],
      [source |-> CallSource(Span(0, 7), <<PathExpr(<<SelfLower>>, Span(2, 6))>>),
       tail |-> <<"(", "s", "e", "l", "f", ")", ";">>],
      [source |-> CallSource(Span(0, 11),
                     <<AddrOfExpr(PathExpr(<<SelfLower>>, Span(3, 7)), Span(2, 7)),
                       LitExpr(Span(9, 10))>>),
       tail |-> <<"(", "&", "s", "e", "l", "f", ",", " ", "1", ")", ";">>],
      [source |-> CallSource(Span(0, 4), <<PathExpr(<<FieldW>>, Span(2, 3))>>),
       tail |-> <<"(", "w", ")", ";">>],
      [source |-> CallSource(Span(0, 3), << >>), tail |-> <<"(", ")", ";">>] }

\* Names of associated items, in and outside calls.
AssocRequests ==
    {[DefaultRequest EXCEPT !.path = <<n>>, !.source = c.source, !.tail = c.tail,
                            !.self_type = a, !.self_value = v,
                            !.meta.current_trait_assoc_types = ats, !.trait = tr] :
        n \in {FieldW, Meth, Func, Assoc}, c \in CallShapes,
        a \in BOOLEAN, v \in BOOLEAN,
        ats \in {<< >>, <<Assoc>>},
        tr \in {None, Some(TraitItems)}}

\* `Self`, `self` and the names other languages use for it.
SelfRequests ==
    {[DefaultRequest EXCEPT !.path = <<n>>, !.source = s, !.self_type = a,
                            !.self_value = v, !.meta.current_function = f] :
        n \in {SelfUpper, SelfLower, This, My},
        s \in {TypeSource, ExprNone, PatSource},
        a \in BOOLEAN, v \in BOOLEAN,
        f \in {None, Some([self_param |-> TRUE, span |-> Span(600, 610)]),
               Some([self_param |-> FALSE, span |-> Span(600, 610)])}}

MaxEnumCandidates == 3

\* The variants lookup_import_candidates can find under the path's name.
VariantPaths ==
    { <<<<"E">>, <<"A">>>>, <<<<"F">>, <<"A">>>>,
      <<Std, Prelude, V1, <<"N">>>>, <<Std, Prelude, V1, <<"O">>, <<"N">>>> }

VariantLists ==
    {[k \in 1..Len(s) |-> [did |-> Some(510 + k), path |-> s[k]]] :
        s \in InjSeqs(VariantPaths, MaxEnumCandidates)}

\* Names for which imports or enum variants are found.
EnumRequests ==
    {[DefaultRequest EXCEPT !.source = s, !.res = r, !.self_type = FALSE,
                            !.resolver.import_candidates = im,
                            !.resolver.variant_candidates = vs] :
        s \in {TypeSource, ExprNone},
        r \in {None, Some(Res("Variant", 500))},
        im \in {<< >>, <<[did |-> Some(500), path |-> <<<<"E">>, FieldW>>]>>,
                <<[did |-> None, path |-> <<<<"F">>, FieldW>>]>>},
        vs \in VariantLists}

\* The sources of a path `Foo` with the text that follows it.
ContextShapes ==
    { [source |-> ExprNone, tail |-> <<";">>],
      [source |-> ExprNone, tail |-> <<" ", "{", "a", "}", ";">>],
      [source |-> ExprNone, tail |-> <<" ", "{", "a">>],
      [source |-> ExprNone, tail |-> Repeat(" ", LookaheadChars + 2) \o <<"{", "}", ";">>],
      [source |-> ExprParent("Field", Span(0, 5), <<"x">>, Span(4, 5)),
       tail |-> <<".", "x", ";">>],
      [source |-> ExprParent("MethodCall", Span(0, 7), <<"m">>, Span(4, 5)),
       tail |-> <<".", "m", "(", ")", ";">>],
      [source |-> CallSource(Span(0, 6), <<LitExpr(Span(4, 5))>>),
       tail |-> <<"(", "1", ")", ";">>],
      [source |-> PatSource, tail |-> <<" ", "{", "}">>],
      [source |-> TupleStructSource, tail |-> <<"(", "x", ")">>],
      [source |-> TraitSource, tail |-> <<" ", "{">>],
      [source |-> TypeSource, tail |-> <<";">>],
      [source |-> StructSource, tail |-> <<" ", "{", "}">>] }

ContextKinds ==
    {"MacroBang", "TyAlias", "Mod", "Enum", "Struct", "Union", "Variant",
     "CtorFictive", "CtorFn", "SelfTy", "AssocTy", "Fn", "Trait"}

\* Paths that resolved to something the source does not expect.
ContextRequests ==
    {rq \in
        {[DefaultRequest EXCEPT !.path = <<n>>, !.source = c.source, !.tail = c.tail,
                                !.res = Some(Res(k, 800)), !.typo = ty,
                                !.def_span = d,
                                !.resolver.struct_constructors = sc,
                                !.resolver.enum_variants = ev,
                                !.resolver.nightly = b, !.resolver.rust_2015 = b] :
            n \in {PathText, Try}, c \in ContextShapes, k \in ContextKinds,
            ty \in {None, Some(<<"F", "o">>)},
            d \in {None, Some(Span(500, 503))},
            sc \in {None, Some([ctor_def |-> Res("CtorFn", 801), accessible |-> TRUE]),
                    Some([ctor_def |-> Res("CtorFn", 801), accessible |-> FALSE])},
            ev \in {None, Some(<< >>), Some(<< <<PathText, <<"A">>>> >>),
                    Some(<< <<PathText, <<"A">>>>, <<PathText, <<"B">>>> >>)},
            b \in BOOLEAN} :
        /\ ~is_expected(rq.source, rq.res[1])
        /\ rq.res[1].kind # "Struct" => rq.resolver.struct_constructors = None
        /\ rq.res[1].kind # "Enum" => rq.resolver.enum_variants = None
        /\ rq.res[1].kind \notin {"TyAlias", "MacroBang"} => ~rq.resolver.nightly
        /\ rq.path = <<Try>> => rq.res[1].kind = "MacroBang" /\ rq.source = ExprNone
        /\ rq.source.parent # None => rq.path = <<PathText>>}

\* Paths in the type of a `let` or behind a type ascription.
FallbackRequests ==
    {[DefaultRequest EXCEPT !.source = TypeSource, !.res = r, !.self_type = FALSE,
                            !.prefix = t.prefix, !.tail = t.tail, !.typo = ty,
                            !.meta.current_let_binding = lb,
                            !.meta.current_type_ascription = t.ascriptions] :
        r \in {None, Some(Res("Local", 700)), Some(Res("Fn", 701))},
        ty \in {None, Some(<<"w", "w">>)},
        lb \in {None,
                Some([pat_sp |-> Span(0, 1), ty_sp |-> Some(Span(3, 4)), init_sp |-> None]),
                Some([pat_sp |-> Span(0, 1), ty_sp |-> None, init_sp |-> None]),
                Some([pat_sp |-> Span(0, 1), ty_sp |-> Some(Span(3, 4)),
                      init_sp |-> Some(Span(7, 8))])},
        t \in {[prefix |-> << >>, tail |-> <<";">>, ascriptions |-> << >>],
               [prefix |-> <<"x", ":", " ">>, tail |-> <<" ", "=", " ", "1", ";">>,
                ascriptions |-> << >>],
               [prefix |-> <<"x", ":", " ">>, tail |-> <<" ", "=", " ", "1", ";">>,
                ascriptions |-> <<Span(0, 1)>>],
               [prefix |-> <<"x", ":", "\n">>, tail |-> <<";">>,
                ascriptions |-> <<Span(0, 1)>>],
               [prefix |-> <<"x", " ", ":">>, tail |-> <<";">>,
                ascriptions |-> <<Span(0, 1)>>],
               [prefix |-> <<"x", "+", " ">>, tail |-> <<";">>,
                ascriptions |-> <<Span(0, 1)>>],
               [prefix |-> <<"x", ":", " ">>, tail |-> <<";">>,
                ascriptions |-> <<Span(0, 1)>>],
               [prefix |-> <<"x", ":">>, tail |-> <<" ", "=", " ", "1", ";">>,
                ascriptions |-> <<Span(0, 1)>>],
               [prefix |-> <<"x", ":", " ">>, tail |-> <<"\n", "=", " ", "1", ";">>,
                ascriptions |-> <<Span(0, 1)>>]}
              \cup {[prefix |-> <<"x">> \o Repeat(" ", AssignScanChars + 2) \o <<":">>,
                     tail |-> <<";">>, ascriptions |-> <<Span(0, 1)>>]}
              \cup {[prefix |-> <<"x", ":", " ">>, tail |-> Repeat(" ", k) \o <<"=", ";">>,
                     ascriptions |-> <<Span(0, 1)>>] :
                        k \in (AssignScanChars - 3)..(AssignScanChars - 1)}}

ReportRequests ==
    FieldRequests \cup AssocRequests \cup SelfRequests \cup EnumRequests
    \cup ContextRequests \cup FallbackRequests

(***************************************************************************)
(* smart_resolve_report_errors, stage by stage.                            *)
(***************************************************************************)
reportInputs == <<path, res, self_type_is_available, self_value_is_available,
                  diagnostic_metadata, current_trait_ref, resolver, typo_lookup>>
braceInputs == <<src_text, span, source, def_span>>
braceLocals == <<cur_sp, brace_i, followed, closing_brace>>

ReportIdle ==
    /\ path = <<FieldW>>
    /\ res = None
    /\ self_type_is_available = FALSE
    /\ self_value_is_available = FALSE
    /\ diagnostic_metadata = DefaultMeta
    /\ current_trait_ref = None
    /\ resolver = DefaultResolver
    /\ typo_lookup = None
    /\ candidates = << >>
    /\ base = [fallback_label |-> << >>, base_span |-> Span(0, 0), could_be_expr |-> FALSE]
    /\ levenshtein_worked = FALSE
    /\ stages = << >>
    /\ rpc = "idle"

\* The call: the path lies at `span` in the text, nothing has been reported.
ReportInit ==
    \E rq \in ReportRequests :
        /\ path = rq.path
        /\ res = rq.res
        /\ self_type_is_available = rq.self_type
        /\ self_value_is_available = rq.self_value
        /\ diagnostic_metadata = rq.meta
        /\ current_trait_ref = rq.trait
        /\ resolver = rq.resolver
        /\ typo_lookup = rq.typo
        /\ src_text = rq.prefix \o names_to_string(rq.path) \o rq.tail
        /\ span = Span(Len(rq.prefix), Len(rq.prefix) + Len(names_to_string(rq.path)))
        /\ source = rq.source
        /\ def_span = rq.def_span
        /\ cur_sp = Span(0, 0)
        /\ brace_i = 0
        /\ followed = FALSE
        /\ closing_brace = None
        /\ err = EmptyErr
        /\ bpc = "idle"
        /\ candidates = << >>
        /\ base = [fallback_label |-> << >>, base_span |-> Span(0, 0),
                   could_be_expr |-> FALSE]
        /\ levenshtein_worked = FALSE
        /\ stages = << >>
        /\ rpc = "start"

\* Lines 100-175: the base error and the hint for `this` and `my`.
ReportBase ==
    /\ rpc = "start"
    /\ base' = BaseError(path, span, source, res, src_text)
    /\ err' = LET e0 == [EmptyErr EXCEPT !.code = error_code(source, res # None)]
              IN  IF path[Len(path)] \in {This, My} /\ self_value_is_available
                  THEN span_suggestion_short(e0, span,
                           "you might have meant to use self here instead",
                           SelfLower, "MaybeIncorrect")
                  ELSE e0
    /\ rpc' = "self_keyword"
    /\ UNCHANGED <<reportInputs, candidates, levenshtein_worked, stages>>
    /\ UNCHANGED <<braceInputs, braceLocals, bpc>>
    /\ UNCHANGED <<typoVars, findVars, lifeVars, missVars, labelVars>>

\* Lines 186-206: the error for an unresolved `self`.
SelfValueError(e, at, src, meta) ==
    LET e1 == span_label([e EXCEPT !.code = "E0424"], at,
                  IF src.kind = "Pat"
                  THEN "self value is a keyword and may not be bound to variables or shadowed"
                  ELSE "self value is a keyword only available in methods with a self parameter")
    IN  IF meta.current_function # None
        THEN span_label(e1, meta.current_function[1].span,
                 IF meta.current_function[1].self_param
                 THEN "this function has a self parameter, but a macro invocation can only access identifiers it receives from parameters"
                 ELSE "this function doesn't have a self parameter")
        ELSE e1

\* Lines 177-207: the special messages for `Self` and `self`, which return.
ReportSelfKeyword ==
    /\ rpc = "self_keyword"
    /\ IF is_self_type(path, namespace(source))
       THEN /\ err' = span_label([err EXCEPT !.code = "E0411"], span,
                          "Self is only available in impls, traits, and type definitions")
            /\ rpc' = "done"
       ELSE IF is_self_value(path, namespace(source))
       THEN /\ err' = SelfValueError(err, span, source, diagnostic_metadata)
            /\ rpc' = "done"
       ELSE /\ rpc' = "import"
            /\ UNCHANGED err
    /\ UNCHANGED <<reportInputs, candidates, base, levenshtein_worked, stages>>
    /\ UNCHANGED <<braceInputs, braceLocals, bpc>>
    /\ UNCHANGED <<typoVars, findVars, lifeVars, missVars, labelVars>>

\* Lines 209-266: the import candidates and the hint at enums.
ReportImportCandidates ==
    /\ rpc = "import"
    /\ candidates' = KeptCandidates(resolver.import_candidates, res)
    /\ err' = EnumHint(err, span, source, res, candidates', resolver.variant_candidates)
    /\ rpc' = "assoc"
    /\ UNCHANGED <<reportInputs, base, levenshtein_worked, stages>>
    /\ UNCHANGED <<braceInputs, braceLocals, bpc>>
    /\ UNCHANGED <<typoVars, findVars, lifeVars, missVars, labelVars>>

\* Lines 267-320: the field/method heuristic, which returns when it applies.
ReportAssoc ==
    /\ rpc = "assoc"
    /\ LET h == AssocHeuristic(err, path, span, source, src_text, diagnostic_metadata,
                               current_trait_ref, self_type_is_available,
                               self_value_is_available)
       IN  /\ err' = h.err
           /\ rpc' = IF h.returned THEN "done" ELSE "typo"
    /\ UNCHANGED <<reportInputs, candidates, base, levenshtein_worked, stages>>
    /\ UNCHANGED <<braceInputs, braceLocals, bpc>>
    /\ UNCHANGED <<typoVars, findVars, lifeVars, missVars, labelVars>>

\* Lines 322-324: the typo engine.
ReportTypo ==
    /\ rpc = "typo"
    /\ LET t == add_typo_suggestion(err, typo_lookup,
                                    Span(span.hi - Len(path[Len(path)]), span.hi))
       IN  /\ err' = t.err
           /\ levenshtein_worked' = t.worked
    /\ stages' = Append(stages, "typo")
    /\ rpc' = "context"
    /\ UNCHANGED <<reportInputs, candidates, base>>
    /\ UNCHANGED <<braceInputs, braceLocals, bpc>>
    /\ UNCHANGED <<typoVars, findVars, lifeVars, missVars, labelVars>>

\* Lines 326-338: the context-dependent help, for a path that resolved; the
\* struct-literal rule goes on in followed_by_brace.
ReportContextHelp ==
    /\ rpc = "context"
    /\ IF res = None
       THEN /\ rpc' = "fallback"
            /\ UNCHANGED <<err, stages, braceLocals, bpc>>
       ELSE LET h == smart_resolve_context_dependent_help(err, span, source, res[1],
                         names_to_string(path), base.fallback_label, resolver, def_span)
            IN  /\ stages' = Append(stages, "context")
                /\ IF h.struct_syntax
                   THEN /\ rpc' = "struct_syntax"
                        /\ bpc' = "skip_ws"
                        /\ cur_sp' = span
                        /\ brace_i' = 0
                        /\ followed' = FALSE
                        /\ closing_brace' = None
                        /\ UNCHANGED err
                   ELSE /\ err' = h.err
                        /\ rpc' = IF h.handled THEN "done" ELSE "fallback"
                        /\ UNCHANGED <<braceLocals, bpc>>
    /\ UNCHANGED <<reportInputs, candidates, base, levenshtein_worked>>
    /\ UNCHANGED braceInputs
    /\ UNCHANGED <<typoVars, findVars, lifeVars, missVars, labelVars>>

\* bad_struct_syntax_suggestion is through: the help answers true (line 608)
\* and the function returns (line 336).
ReportStructSyntaxDone ==
    /\ rpc = "struct_syntax"
    /\ bpc = "done"
    /\ rpc' = "done"
    /\ UNCHANGED <<reportInputs, candidates, base, levenshtein_worked, stages>>
    /\ UNCHANGED braceVars
    /\ UNCHANGED <<typoVars, findVars, lifeVars, missVars, labelVars>>

\* Lines 340-356: the fallback label, unless the typo engine suggested.
ReportFallback ==
    /\ rpc = "fallback"
    /\ IF ~levenshtein_worked
       THEN /\ err' = FallbackLabel(err, base, src_text, diagnostic_metadata)
            /\ stages' = Append(stages, "fallback")
       ELSE UNCHANGED <<err, stages>>
    /\ rpc' = "done"
    /\ UNCHANGED <<reportInputs, candidates, base, levenshtein_worked>>
    /\ UNCHANGED <<braceInputs, braceLocals, bpc>>
    /\ UNCHANGED <<typoVars, findVars, lifeVars, missVars, labelVars>>

ReportNext ==
    \/ ReportBase
    \/ ReportSelfKeyword
    \/ ReportImportCandidates
    \/ ReportAssoc
    \/ ReportTypo
    \/ ReportContextHelp
    \/ SkipWhitespace
    \/ SearchClosingBrace
    \/ SuggestStructSyntax
    \/ ReportStructSyntaxDone
    \/ ReportFallback

(***************************************************************************)
(* Properties of the self-field heuristic.                                 *)
(***************************************************************************)
RECURSIVE StripRefs(_)
StripRefs(t) == IF t.kind = "Rptr" THEN StripRefs(t.ty) ELSE t

\* The declared fields of the current self type, when that type is written as
\* a path, possibly behind references, that names a struct or a union.
SelfTypeFields ==
    IF diagnostic_metadata.current_self_type = None THEN {}
    ELSE LET t == StripRefs(diagnostic_metadata.current_self_type[1])
         IN  IF /\ t.kind = "Path"
                /\ ~t.qself
                /\ t.id \in DOMAIN partial_res_map
             THEN LET rsl == partial_res_map[t.id]
                  IN  IF /\ rsl.unresolved_segments = 0
                         /\ rsl.base_res.kind \in {"Struct", "Union"}
                         /\ rsl.base_res.id \in DOMAIN field_names
                      THEN {field_names[rsl.base_res.id][k] :
                                k \in 1..Len(field_names[rsl.base_res.id])}
                      ELSE {}
             ELSE {}

\* The diagnosis of an unresolved bare name that is a field of the current self
\* type, where a local binding is acceptable, has returned.
SelfFieldCase ==
    /\ rpc = "done"
    /\ res = None
    /\ Len(path) = 1
    /\ path[1] \in SelfTypeFields
    /\ is_expected(source, Res("Local", 0))

\* With `self` reachable the path is rewritten to `self.` and the name; without,
\* only the label is attached and nothing is rewritten; neither the typo engine
\* nor the contextual rules nor the fallback label have run.
SelfFieldOutcome ==
    /\ stages = << >>
    /\ err.multiparts = << >>
    /\ err.choices = << >>
    /\ IF self_value_is_available
       THEN /\ err.suggestions # << >>
            /\ err.suggestions[Len(err.suggestions)].span = span
            /\ err.suggestions[Len(err.suggestions)].text =
                   <<"s", "e", "l", "f", ".">> \o path[1]
       ELSE /\ err.suggestions = << >>
            /\ Len(err.labels) = 1
            /\ err.labels[1].span = span
            /\ err.labels[1].msg = <<"a field by this name exists in Self">>

\* C10 as stated: for an unresolved length-1 path whose name is a declared
\* field of the current self type, where a local binding is acceptable, the
\* path is rewritten to `self.` and the name if `self` is reachable and only
\* labelled if not, and the function returns without running the typo engine,
\* the contextual rules or the fallback label.
C10_SelfFieldHeuristic == SelfFieldCase => SelfFieldOutcome

\* C10 (amended): the same, for the requests made where `Self` is available
\* at the span.
C10_SelfFieldHeuristicWhereSelfIsAvailable ==
    SelfFieldCase /\ self_type_is_available => SelfFieldOutcome

\* C10's case: the field `v` of the struct named behind a reference, with
\* `Self` available and no `self` in reach: only the label is attached.
C10_Witness ==
    /\ SelfFieldCase
    /\ self_type_is_available
    /\ ~self_value_is_available
    /\ path = <<FieldV>>
    /\ diagnostic_metadata.current_self_type = Some(RptrTy(PathTy(1)))
    /\ Len(err.labels) = 1
    /\ err.suggestions = << >>

(***************************************************************************)
(* Properties of the order of the stages of smart_resolve_report_errors.   *)
(***************************************************************************)
\* The positions of a stage in the record of the stages that have run.
StagePositions(stage) == {k \in 1..Len(stages) : stages[k] = stage}

\* A contextual rule applies to the request: the help answers true.
ContextRuleFires ==
    /\ res # None
    /\ smart_resolve_context_dependent_help(EmptyErr, span, source, res[1],
           names_to_string(path), base.fallback_label, resolver, def_span).handled

\* The diagnostic carries the suggestion of the typo engine.
HasTypoSuggestion ==
    \E k \in 1..Len(err.suggestions) : err.suggestions[k].msg = "a similar name exists"

\* C11: the contextual rules are attempted before the typo engine, and the
\* typo engine is a fallback only: a diagnostic for a path that resolved and
\* matched a contextual rule never went through the typo engine and never
\* carries its suggestion.
C11_ContextualRulesBeforeTypoEngine ==
    /\ \A c \in StagePositions("context") : \A t \in StagePositions("typo") : c < t
    /\ rpc = "done" /\ ContextRuleFires =>
           /\ StagePositions("typo") = {}
           /\ ~HasTypoSuggestion

(***************************************************************************)
(* Properties of the applicability of the suggestions.                     *)
(***************************************************************************)
\* C12: whenever two or more alternative replacements are offered for the
\* same span, the suggestion does not carry the machine-applicable tier.
C12_AlternativesNeverMachineApplicable ==
    \A k \in 1..Len(err.choices) :
        Len(err.choices[k].texts) >= 2 =>
            err.choices[k].applicability # "MachineApplicable"

(***************************************************************************)
(* Properties of the special messages for `Self` and `self`.               *)
(***************************************************************************)
\* The failing path is exactly the single identifier `Self` or `self`.
SelfKeywordPath == Len(path) = 1 /\ path[1] \in {SelfUpper, SelfLower}

\* The label on the enclosing function, when one is recorded.
SelfFunctionLabels ==
    IF diagnostic_metadata.current_function = None THEN << >>
    ELSE << [span |-> diagnostic_metadata.current_function[1].span,
             msg |-> IF diagnostic_metadata.current_function[1].self_param
                     THEN "this function has a self parameter, but a macro invocation can only access identifiers it receives from parameters"
                     ELSE "this function doesn't have a self parameter"] >>

\* The short-circuit: the dedicated code, the explanatory labels, an empty
\* candidate list, and none of the later stages.
SelfKeywordOutcome ==
    /\ candidates = << >>
    /\ stages = << >>
    /\ err.suggestions = << >> /\ err.choices = << >> /\ err.multiparts = << >>
    /\ err.notes = << >> /\ err.helps = << >>
    /\ IF path[1] = SelfUpper
       THEN /\ err.code = "E0411"
            /\ err.labels =
                   << [span |-> span,
                       msg |-> "Self is only available in impls, traits, and type definitions"] >>
       ELSE /\ err.code = "E0424"
            /\ err.labels =
                   << [span |-> span,
                       msg |-> IF source.kind = "Pat"
                               THEN "self value is a keyword and may not be bound to variables or shadowed"
                               ELSE "self value is a keyword only available in methods with a self parameter"] >>
                   \o SelfFunctionLabels

\* C13 as stated: whenever the failing path is exactly `Self` or `self` the
\* function short-circuits with the dedicated code and labels and returns an
\* empty candidate list without running any later stage.
C13_SelfKeywordShortCircuits ==
    rpc = "done" /\ SelfKeywordPath => SelfKeywordOutcome

\* C13 (amended): the short-circuit is taken for `Self` looked up in the type
\* namespace and for `self` looked up in the value namespace; the label on
\* the enclosing function is attached when an enclosing function is recorded.
C13_SelfKeywordShortCircuitsInItsNamespace ==
    /\ rpc = "done" /\ SelfKeywordPath
    /\ namespace(source) = (IF path[1] = SelfUpper THEN "TypeNS" ELSE "ValueNS")
    => SelfKeywordOutcome

\* C13's case: `self` in a pattern inside a function without self parameter.
C13_Witness ==
    /\ rpc = "done"
    /\ path = <<SelfLower>>
    /\ source = PatSource
    /\ diagnostic_metadata.current_function # None
    /\ ~diagnostic_metadata.current_function[1].self_param
    /\ err.code = "E0424"
    /\ Len(err.labels) = 2

\* The context-dependent help has run on a path that resolved to a struct
\* where a value was expected, and the report is finished.
StructWhereValueExpected ==
    /\ rpc = "done"
    /\ StagePositions("context") # {}
    /\ res # None /\ res[1].kind = "Struct"
    /\ namespace(source) = "ValueNS"

\* The only label of the diagnostic says that the constructor is not visible.
OnlyLabelIsNotVisible ==
    /\ Len(err.labels) = 1
    /\ err.labels[1] =
           [span |-> span,
            msg |-> "constructor is not visible here due to private fields"]

LineOfChar(text, i) == 1 + Cardinality({k \in 1..(i - 1) : text[k] = "\n"})

\* The index of the first character after the ascribed expression that is no
\* whitespace.
ColonAt ==
    FirstNonWs(src_text, diagnostic_metadata.current_type_ascription[
                             Len(diagnostic_metadata.current_type_ascription)].hi)

\* The fallback stage has run type_ascription_suggestion and the scan has
\* found the ascription colon.
ColonIsFound ==
    /\ rpc = "done"
    /\ \E k \in 1..Len(stages) : stages[k] = "fallback"
    /\ diagnostic_metadata.current_type_ascription # << >>
    /\ ColonAt <= Len(src_text)
    /\ src_text[ColonAt] = ":"

ColonOnOtherLine == LineOfChar(src_text, ColonAt) # LineOfChar(src_text, span.lo + 1)

\* An "=" among the characters the assignment scan reads, the ones from the
\* second character after the colon on, with no newline before it.
AssignFound ==
    \E q \in (ColonAt + 2)..Min(Len(src_text), ColonAt + 1 + AssignScanChars) :
        /\ src_text[q] = "="
        /\ \A r \in (ColonAt + 2)..(q - 1) : src_text[r] # "\n"

SemicolonSuggested ==
    \E k \in 1..Len(err.suggestions) :
        /\ err.suggestions[k].text = <<";">>
        /\ err.suggestions[k].span = Span(ColonAt - 1, ColonAt - 1)
PathSepSuggested ==
    \E k \in 1..Len(err.suggestions) :
        /\ err.suggestions[k].text = <<":", ":">>
        /\ err.suggestions[k].span = Span(ColonAt - 1, ColonAt)
LetSuggested ==
    \E k \in 1..Len(err.suggestions) :
        /\ err.suggestions[k].text =
               <<"l", "e", "t", " ">> \o SubSeq(src_text, span.lo + 1, span.hi)
        /\ err.suggestions[k].span = span
TypeLabelAttached ==
    \E k \in 1..Len(err.labels) :
        err.labels[k] = [span |-> span,
                         msg |-> <<"expecting a type here because of type ascription">>]

\* What holds of every found colon, whatever decides about the separator.
AscriptionOutcome(separator_wanted) ==
    IF ColonOnOtherLine
    THEN SemicolonSuggested /\ ~PathSepSuggested /\ ~LetSuggested /\ TypeLabelAttached
    ELSE /\ ~SemicolonSuggested
         /\ PathSepSuggested <=> separator_wanted
         /\ LetSuggested <=> AssignFound
         /\ TypeLabelAttached <=> (~PathSepSuggested /\ ~LetSuggested)

\* C22 as stated: once the colon is found, on another line than the failing
\* span only ";" is suggested; on the same line "::" is proposed exactly when
\* the colon is not already followed by a path separator, the let rewrite
\* exactly when an "=" is found by the capped scan before a newline or an
\* unreadable position, and the label about expecting a type exactly when
\* neither of the two was proposed.
C22_AscriptionBySeparator ==
    ColonIsFound =>
        AscriptionOutcome(~(/\ ColonAt + 2 <= Len(src_text)
                            /\ src_text[ColonAt + 1] = ":"
                            /\ src_text[ColonAt + 2] = ":"))

\* C22 as amended: the same, but "::" is proposed exactly when the character
\* after the colon is not a space (the end of the text included).
C22_AscriptionBySpace ==
    ColonIsFound =>
        AscriptionOutcome(~(ColonAt + 1 <= Len(src_text) /\ src_text[ColonAt + 1] = " "))

\* C22's case: the colon on the line of the failing span, a space after it and
\* an "=" further on; the let rewrite is proposed, the separator and the
\* label are not.
C22_Witness ==
    /\ ColonIsFound
    /\ ~ColonOnOtherLine
    /\ src_text[ColonAt + 1] = " "
    /\ AssignFound
    /\ LetSuggested /\ ~PathSepSuggested /\ ~TypeLabelAttached

\* ---- C24 ----
\* The iterations the whitespace skip of followed_by_brace has made: starting
\* from the failing span, next_point yields the empty span at a position and
\* then the character after it.
SkipSteps == 2 * (cur_sp.hi - span.hi) + (IF cur_sp.lo = cur_sp.hi THEN 1 ELSE 0)

\* The iterations the colon scan has made when it reads the colon: it starts
\* at the end of the ascribed expression and reads every character twice.
ColonSteps ==
    2 * (ColonAt - diagnostic_metadata.current_type_ascription[
                       Len(diagnostic_metadata.current_type_ascription)].hi) - 1

\* The colon scan got to the colon: one of the things done there shows in the
\* diagnostic.
ColonActedOn ==
    /\ ColonIsFound
    /\ SemicolonSuggested \/ PathSepSuggested \/ LetSuggested \/ TypeLabelAttached

\* C24: every lookahead loop over the source text (the whitespace skip and the
\* closing-brace search of followed_by_brace, the colon scan and the
\* assignment scan of type_ascription_suggestion) runs under a fixed iteration
\* cap, so that none makes more iterations than the cap allows however long a
\* run of whitespace is, and a loop that exceeds its cap suggests nothing.
C24_EveryLookaheadLoopCapped ==
    /\ (bpc = "skip_ws" => SkipSteps <= LookaheadCap + 1)
    /\ brace_i <= LookaheadCap + 1
    /\ (bpc \in {"suggest", "done"} /\ ExceedsCap(brace_i) => closing_brace = None)
    /\ (ColonActedOn => ColonSteps <= AssignScanCap + 1)
    /\ (ColonIsFound /\ LetSuggested => AssignFound)

\* ---- C26 ----
\* What the diagnostic carries beyond its primary message.
Contributions ==
    Len(err.labels) + Len(err.notes) + Len(err.helps) + Len(err.suggestions)
    + Len(err.choices) + Len(err.multiparts)

\* C26: every diagnostic smart_resolve_report_errors returns carries at least
\* one label, note or suggestion beyond its primary message: where nothing
\* else contributed, the fallback label is attached.
C26_EveryDiagnosticCarriesSomething ==
    rpc = "done" => Contributions >= 1

\* ---- C27 ----
\* The suggestion of the variant's enum was made with the preamble that names
\* the first variant.
PreambleBuilt ==
    /\ err.choices # << >>
    /\ err.choices[1].applicability = "MachineApplicable"
    /\ err.choices[1].msg.preamble # None

\* C27: in the preamble "there is an enum variant ..." the number after "and"
\* is the number of enum candidates minus one for every count of 2 or more;
\* one candidate has no suffix.
C27_OthersIsTheCountMinusOne ==
    PreambleBuilt =>
        LET n == Len(resolver.variant_candidates)
            others == err.choices[1].msg.preamble[1].others
        IN  IF n = 1 THEN others = << >>
            ELSE /\ others[1] = " and "
                 /\ others[2] = n - 1
                 /\ others[3] = IF n = 2 THEN " other" ELSE " others"

(***************************************************************************)
(* collect_enum_variants and the enum arm of the contextual help.          *)
(***************************************************************************)
\* The children of the enum `a`: two variants and an item that is none.
VariantBinding(owner, ident) == [NameBinding(owner, ident, TRUE, None) EXCEPT !.res = "Variant"]

EnumUniverse ==
    BindingUniverse
    \cup {VariantBinding("a", v) : v \in {"V", "W"}}
    \cup {NameBinding("a", "item", TRUE, None)}

EnumGraphs == {g \in SubsetsUpTo(EnumUniverse, MaxBindings) : WellFormedGraph(g)}

\* The text of an ident of the graph.
IdentText(id) == IF id = CRATE THEN <<"c", "r", "a", "t", "e">> ELSE <<id>>

\* A slip that takes every child of the enum's module for a variant.
IsVariantAlways(b) == TRUE

\* if let Res::Def(DefKind::Variant, _) = name_binding.res()
is_variant(b) == b.res = "Variant"

\* The closure passed to enum_module.for_each_child, child by child: segms is
\* the found path, to which the ident of a variant is pushed.
RECURSIVE PushVariants(_, _, _)
PushVariants(cs, segms, i) ==
    IF i > Len(cs) THEN << >>
    ELSE (IF is_variant(cs[i]) THEN <<Append(segms, cs[i].ident)>> ELSE << >>)
         \o PushVariants(cs, segms, i + 1)

\* collect_enum_variants (lines 908-920) on what find_module returned.
collect_enum_variants(g, module_found) ==
    IF module_found = None THEN None
    ELSE Some(PushVariants(Children(g, module_found[1].module),
                           module_found[1].suggestion.path, 1))

\* The paths as the diagnostics print them: every segment as its text.
PathTexts(paths) ==
    [k \in 1..Len(paths) |-> [j \in 1..Len(paths[k]) |-> IdentText(paths[k][j])]]

EnumInit ==
    \E g \in EnumGraphs, d \in SearchedIds :
        /\ graph = g
        /\ def_id = d
        /\ worklist = << <<CRATE, << >> >> >>
        /\ seen_modules = {}
        /\ fm_result = None
        /\ expansions = [m \in FindModuleSet |-> 0]
        /\ iterations = 0
        /\ fpc = "loop"

\* Lines 549-568: the path resolved to the enum def_id where a tuple struct or
\* an expression is expected; the variants collected from what find_module
\* found are what the arm of the contextual help works on.
SuggestEnumVariants ==
    /\ fpc = "done"
    /\ \E src \in {ExprNone, TupleStructSource} :
         LET variants == collect_enum_variants(graph, fm_result)
             rsv == [DefaultResolver EXCEPT
                        !.enum_variants = IF variants = None THEN None
                                          ELSE Some(PathTexts(variants[1]))]
         IN  /\ source' = src
             /\ err' = smart_resolve_context_dependent_help(err, span, src,
                           Res("Enum", def_id), IdentText(def_id), << >>, rsv, None).err
    /\ fpc' = "suggested"
    /\ UNCHANGED <<graph, def_id, worklist, seen_modules, fm_result, expansions,
                   iterations>>
    /\ UNCHANGED <<src_text, span, def_span, cur_sp, brace_i, followed, closing_brace, bpc>>
    /\ UNCHANGED <<typoVars, lifeVars, reportVars, missVars, labelVars>>

EnumNext == ExpandModule \/ BreakOnResult \/ WorklistEmpty \/ SuggestEnumVariants

\* ---- C25 ----
\* The texts the claim names: for every child of the found module that
\* resolves to a variant, the found path with the variant's name appended.
VariantTexts ==
    { names_to_string([j \in 1..(Len(fm_result[1].suggestion.path) + 1) |->
                           IF j <= Len(fm_result[1].suggestion.path)
                           THEN IdentText(fm_result[1].suggestion.path[j])
                           ELSE IdentText(b.ident)]) :
        b \in {c \in graph : c.owner = fm_result[1].module /\ c.res = "Variant"} }

\* The alternatives the diagnostic proposes, as a set and counted.
SuggestedTexts ==
    UNION { {err.choices[k].texts[j] : j \in 1..Len(err.choices[k].texts)} :
              k \in 1..Len(err.choices) }
SuggestedCount ==
    IF err.choices = << >> THEN 0 ELSE Len(err.choices[1].texts)

\* C25: for a path resolved to an enum in tuple-struct or expression position,
\* when find_module locates the enum's module the alternatives suggested are
\* exactly the module's children that resolve to a variant, each as the found
\* path with the variant's name appended; when the module is not located the
\* note about using one of the enum's variants is emitted and no path is
\* suggested.
C25_AlternativesAreTheVariantChildren ==
    fpc = "suggested" =>
        IF fm_result # None
        THEN /\ SuggestedTexts = VariantTexts
             /\ SuggestedCount = Cardinality(VariantTexts)
             /\ Len(err.choices) <= 1
             /\ err.notes = << >>
        ELSE /\ err.notes = <<"did you mean to use one of the enum's variants?">>
             /\ err.choices = << >>
             /\ err.suggestions = << >>

\* C25's case: the enum is found, it has two variants and a child that is
\* none, and the two variants are what is proposed.
C25_Witness ==
    /\ fpc = "suggested"
    /\ fm_result # None
    /\ Cardinality(VariantTexts) = 2
    /\ NameBinding("a", "item", TRUE, None) \in graph
    /\ SuggestedTexts = VariantTexts

(***************************************************************************)
(* report_missing_type_error: the missing-type-parameter heuristic.        *)
(***************************************************************************)
\* A span that also records its syntax context: "root" is code as written,
\* any other context is code produced by a macro expansion.
SpanIn(lo, hi, ctxt) == [lo |-> lo, hi |-> hi, ctxt |-> ctxt]

\* Span::from_expansion: the span's context is not the root context.
from_expansion(sp) == sp.ctxt # "root"

\* Span::overlaps: the two spans share a byte.
overlaps(a, b) == a.lo < b.hi /\ b.lo < a.hi

\* char::is_uppercase on the letters the identifiers here are written in.
is_uppercase(c) == c \in {"A", "B", "C", "D", "T"}

\* The item kinds of diagnostic_metadata.current_item; ItemKind::generics
\* answers Some for every kind but the ones like Mod that take no generics.
ItemFn(name, generics) == [kind |-> "Fn", name |-> name, generics |-> Some(generics)]
ItemOf(kind, generics) == [kind |-> kind, name |-> "f", generics |-> Some(generics)]
ItemMod == [kind |-> "Mod", name |-> "f", generics |-> None]

AstGenericParam(ident_span, bounds) == [ident_span |-> ident_span, bounds |-> bounds]
AstGenerics(sp, ps) == [span |-> sp, params |-> ps]

\* The generics lists of "fn f", "fn f<A>", "fn f<A: B>", "fn f<A, B: C + D>"
\* and "fn f<A: C, B>": gc is the context of the list's own span, pc the one of
\* the parameters' names and bc the one of the bounds.
AstGenericsLists(gc, pc, bc) ==
    { AstGenerics(SpanIn(4, 4, gc), << >>),
      AstGenerics(SpanIn(4, 7, gc), <<AstGenericParam(SpanIn(5, 6, pc), << >>)>>),
      AstGenerics(SpanIn(4, 10, gc),
               <<AstGenericParam(SpanIn(5, 6, pc), <<SpanIn(8, 9, bc)>>)>>),
      AstGenerics(SpanIn(4, 17, gc),
               <<AstGenericParam(SpanIn(5, 6, pc), << >>),
                 AstGenericParam(SpanIn(8, 9, pc), <<SpanIn(11, 12, bc), SpanIn(15, 16, bc)>>)>>),
      AstGenerics(SpanIn(4, 13, gc),
               <<AstGenericParam(SpanIn(5, 6, pc), <<SpanIn(8, 9, bc)>>),
                 AstGenericParam(SpanIn(11, 12, pc), << >>)>>) }

Contexts == {"root", "expansion"}

AllGenerics == UNION {AstGenericsLists(gc, pc, bc) : gc \in Contexts, pc \in Contexts, bc \in Contexts}

CurrentItems ==
    {None, Some(ItemMod)}
    \cup {Some(ItemFn(n, g)) : n \in {"main", "f"}, g \in AllGenerics}
    \cup {Some(ItemOf(k, g)) : k \in {"Enum", "Struct", "Union", "Trait"}, g \in AllGenerics}

\* A path segment: the failing identifier lies inside the generics list (at a
\* bound, bytes 8..9) or after it (bytes 20..21).
Segment(name, sp, has_generic_args) == [ident |-> [name |-> name, span |-> sp], has_generic_args |-> has_generic_args]

Segments ==
    { Segment(n, SpanIn(lo, lo + 1, c), a) :
        n \in {<<"T">>, <<"t">>, <<"T", "y">>}, lo \in {8, 20}, c \in Contexts, a \in BOOLEAN }

MissingTypePaths ==
    {<<s>> : s \in Segments}
    \cup {<< >>, <<Segment(<<"T">>, SpanIn(20, 21, "root"), FALSE),
                   Segment(<<"T">>, SpanIn(23, 24, "root"), FALSE)>>}

\* let mut iter = ident.chars().map(|c| c.is_uppercase()); the first is
\* Some(true) and there is no second.
single_uppercase_char(ident) == Len(ident) = 1 /\ is_uppercase(ident[1])

\* The mutant of insertion: always after the last parameter's name.
InsertionAtName(generics, ident) ==
    IF generics.params # << >>
    THEN [span |-> generics.params[Len(generics.params)].ident_span,
          sugg |-> <<",", " ">> \o ident]
    ELSE [span |-> generics.span, sugg |-> <<"<">> \o ident \o <<">">>]

\* let (span, sugg) = ...: the span the suggestion is anchored at and its text.
insertion(generics, ident) ==
    IF generics.params # << >>
    THEN LET param == generics.params[Len(generics.params)]
         IN  [span |-> IF param.bounds # << >>
                       THEN param.bounds[Len(param.bounds)]
                       ELSE param.ident_span,
              sugg |-> <<",", " ">> \o ident]
    ELSE [span |-> generics.span, sugg |-> <<"<">> \o ident \o <<">">>]

\* The arm of the match on (current_item, single_uppercase_char) that looks at
\* the item's generics: not fn main; Fn, Enum, Struct or Union for a single
\* uppercase letter, any item otherwise.
LikelyMissingTypeParameter(item, single) ==
    /\ item # None
    /\ ~(item[1].kind = "Fn" /\ item[1].name = "main")
    /\ (single => item[1].kind \in {"Fn", "Enum", "Struct", "Union"})

report_missing_type_error(segs, processing_generics, item) ==
    IF Len(segs) # 1 \/ segs[1].has_generic_args THEN None
    ELSE LET ident  == segs[1].ident.name
             sp     == segs[1].ident.span
             single == single_uppercase_char(ident)
         IN  IF ~processing_generics /\ ~single THEN None
             ELSE IF ~LikelyMissingTypeParameter(item, single) THEN None
             ELSE IF item[1].generics = None THEN None
             ELSE LET generics == item[1].generics[1]
                      ins      == insertion(generics, ident)
                  IN  IF overlaps(sp, generics.span) THEN None
                      ELSE IF from_expansion(ins.span) THEN None
                      ELSE Some([span |-> shrink_to_hi(ins.span),
                                 msg |-> "you might be missing a type parameter",
                                 sugg |-> ins.sugg,
                                 applicability |-> "MaybeIncorrect"])

MissInit ==
    /\ failing_path \in MissingTypePaths
    /\ currently_processing_generics \in BOOLEAN
    /\ current_item \in CurrentItems
    /\ missing_type = None
    /\ mpc = "call"

MissIdle ==
    /\ failing_path = << >>
    /\ currently_processing_generics = FALSE
    /\ current_item = None
    /\ missing_type = None
    /\ mpc = "idle"

ReportMissingTypeError ==
    /\ mpc = "call"
    /\ missing_type' = report_missing_type_error(failing_path, currently_processing_generics,
                                                 current_item)
    /\ mpc' = "done"
    /\ UNCHANGED <<failing_path, currently_processing_generics, current_item>>
    /\ UNCHANGED <<typoVars, findVars, braceVars, lifeVars, reportVars, labelVars>>

MissNext == ReportMissingTypeError

\* ---- C23 ----
\* The call has one segment naming an item with a generics list.
HasGenerics ==
    /\ Len(failing_path) = 1
    /\ current_item # None
    /\ current_item[1].generics # None

FailingSpan == failing_path[1].ident.span
ItemGenerics == current_item[1].generics[1]

\* The place the claim names: the last bound of the last parameter, that
\* parameter's name when it has no bounds, the generics span when the item has
\* no parameters.
NamedSite ==
    IF ItemGenerics.params = << >> THEN ItemGenerics.span
    ELSE LET last == ItemGenerics.params[Len(ItemGenerics.params)]
         IN  IF last.bounds = << >> THEN last.ident_span
             ELSE last.bounds[Len(last.bounds)]

NamedText ==
    IF ItemGenerics.params = << >>
    THEN <<"<">> \o failing_path[1].ident.name \o <<">">>
    ELSE <<",", " ">> \o failing_path[1].ident.name

\* No suggestion when the failing span overlaps the generics span; a
\* suggestion that is made sits just after the named place with the named text.
OverlapAndPlacement ==
    /\ (HasGenerics /\ overlaps(FailingSpan, ItemGenerics.span) => missing_type = None)
    /\ (missing_type # None =>
          /\ HasGenerics
          /\ missing_type[1].span = shrink_to_hi(NamedSite)
          /\ missing_type[1].sugg = NamedText)

\* C23 as stated: report_missing_type_error returns no suggestion whenever the
\* failing identifier's span comes from a macro expansion, and whenever the
\* failing span overlaps the item's generics span; a suggestion that is made is
\* inserted just after the last bound of the last parameter (after its name
\* when it has no bounds) as ", name", or as "<name>" at the generics span
\* when the item has no parameters.
C23_NoSuggestionForExpandedIdentifier ==
    mpc = "done" =>
        /\ (Len(failing_path) = 1 /\ from_expansion(FailingSpan) => missing_type = None)
        /\ OverlapAndPlacement

\* C23 as the code has it: the span tested for macro expansion is the one the
\* suggestion would be inserted at (the last bound, the parameter's name or the
\* generics span), not the failing identifier's; the overlap rule and the
\* placement are as stated.
C23_NoSuggestionAtExpandedInsertionSite ==
    mpc = "done" =>
        /\ (HasGenerics /\ from_expansion(NamedSite) => missing_type = None)
        /\ OverlapAndPlacement

\* C23's case: a single uppercase letter after the generics list of an item
\* whose last parameter has bounds; the suggestion lands after the last bound.
C23_Witness ==
    /\ mpc = "done"
    /\ HasGenerics
    /\ ItemGenerics.params # << >>
    /\ ItemGenerics.params[Len(ItemGenerics.params)].bounds # << >>
    /\ missing_type # None
    /\ missing_type[1].span = shrink_to_hi(NamedSite)
    /\ ~from_expansion(FailingSpan)

(***************************************************************************)
(* suggestion_for_label_in_rib: a similarly named label of one rib.        *)
(***************************************************************************)
\* An identifier: its name and a span that records its syntax context.  Two
\* identifiers are the same key of a rib when name and context agree.
Ident(name, ctxt) == [name |-> name, span |-> SpanIn(0, Len(name), ctxt)]

LabelNames == {<<1>>, <<2>>, <<1, 2>>}
LabelIdents == {Ident(n, c) : n \in LabelNames, c \in Contexts}

MaxLabels == 3

\* rib.bindings in iteration order: up to MaxLabels labels, no key twice.
RECURSIVE BindingLists(_)
BindingLists(n) ==
    IF n = 0 THEN {<< >>}
    ELSE LET shorter == BindingLists(n - 1)
         IN  shorter \cup {Append(bs, id) : bs \in {b \in shorter : Len(b) = n - 1},
                                             id \in LabelIdents}

DistinctKeys(bs) == \A i, j \in 1..Len(bs) : bs[i] = bs[j] => i = j

LabelRibs == {bs \in BindingLists(MaxLabels) : DistinctKeys(bs)}

\* names: the names of the bindings in the target's syntax context.
RECURSIVE NamesInContext(_, _, _)
NamesInContext(bs, label, i) ==
    IF i > Len(bs) THEN << >>
    ELSE (IF bs[i].span.ctxt = label.span.ctxt THEN <<bs[i].name>> ELSE << >>)
         \o NamesInContext(bs, label, i + 1)

\* rib.bindings.iter().find(|(ident, _)| ident.name == symbol).unwrap()
RECURSIVE FindByName(_, _, _)
FindByName(bs, symbol, i) ==
    IF bs[i].name = symbol THEN bs[i] ELSE FindByName(bs, symbol, i + 1)

\* suggestion_for_label_in_rib (lines 996-1018); within_scope is what
\* is_label_valid_from_rib(rib_index) answered.
suggestion_for_label_in_rib(ribs_of_labels, index, label, within_scope) ==
    LET rib == ribs_of_labels[index]
        best == find_best_match_for_name(NamesInContext(rib.bindings, label, 1), label.name)
    IN  IF best = None THEN None
        ELSE Some([ident |-> FindByName(rib.bindings, best[1], 1),
                   within_scope |-> within_scope])

LabelIdle ==
    /\ label_ribs = << >>
    /\ rib_index = 0
    /\ target_label = Ident(<<1>>, "root")
    /\ label_suggestion = None
    /\ spc = "idle"

\* The rib searched is the only one or the inner one of two.
LabelInit ==
    \E bs \in LabelRibs, outer \in {<< >>, <<[bindings |-> << >>]>>}, l \in LabelIdents :
        /\ label_ribs = outer \o <<[bindings |-> bs]>>
        /\ rib_index = Len(outer) + 1
        /\ target_label = l
        /\ label_suggestion = None
        /\ spc = "call"

SuggestionForLabelInRib ==
    /\ spc = "call"
    /\ \E within_scope \in BOOLEAN :
         label_suggestion' = suggestion_for_label_in_rib(label_ribs, rib_index,
                                                         target_label, within_scope)
    /\ spc' = "done"
    /\ UNCHANGED <<label_ribs, rib_index, target_label>>
    /\ UNCHANGED <<typoVars, findVars, braceVars, lifeVars, reportVars, missVars>>

LabelNext == SuggestionForLabelInRib

\* ---- C28 ----
\* C28: suggestion_for_label_in_rib only returns a label identifier whose
\* syntax context is the target label's, also when the rib holds two labels of
\* one name in different contexts.
C28_SuggestedLabelSharesTheContext ==
    spc = "done" /\ label_suggestion # None =>
        label_suggestion[1].ident.span.ctxt = target_label.span.ctxt

(***************************************************************************)
(* The specifications.                                                     *)
(***************************************************************************)
vars == <<typoVars, findVars, braceVars, lifeVars, reportVars, missVars, labelVars>>

\* Each specification starts one operation; what the others work on is at rest.
InitTypo == TypoInit /\ FindIdle /\ BraceIdle /\ LifeIdle /\ ReportIdle /\ MissIdle /\ LabelIdle
InitFind == FindInit /\ TypoIdle /\ BraceIdle /\ LifeIdle /\ ReportIdle /\ MissIdle /\ LabelIdle
InitBrace == BraceInit /\ TypoIdle /\ FindIdle /\ LifeIdle /\ ReportIdle /\ MissIdle /\ LabelIdle
InitLifetime == LifeInit /\ TypoIdle /\ FindIdle /\ BraceIdle /\ ReportIdle /\ MissIdle /\ LabelIdle
InitReport == ReportInit /\ TypoIdle /\ FindIdle /\ LifeIdle /\ MissIdle /\ LabelIdle
InitEnum == EnumInit /\ TypoIdle /\ BraceIdle /\ LifeIdle /\ ReportIdle /\ MissIdle /\ LabelIdle
InitLabel == LabelInit /\ TypoIdle /\ FindIdle /\ BraceIdle /\ LifeIdle /\ ReportIdle /\ MissIdle
InitMissingType == MissInit /\ TypoIdle /\ FindIdle /\ BraceIdle /\ LifeIdle /\ ReportIdle /\ LabelIdle

SpecTypo == InitTypo /\ [][TypoNext]_vars

\* find_module runs to its end once called: its loop is never suspended.
SpecFind == InitFind /\ [][FindNext]_vars /\ WF_vars(FindNext)

SpecBrace == InitBrace /\ [][BraceNext]_vars

SpecLifetime == InitLifetime /\ [][LifeNext]_vars

SpecReport == InitReport /\ [][ReportNext]_vars

\* collect_enum_variants calls find_module and works on what it returns.
SpecEnum == InitEnum /\ [][EnumNext]_vars

SpecMissingType == InitMissingType /\ [][MissNext]_vars

SpecLabel == InitLabel /\ [][LabelNext]_vars

====
